---- MODULE Spec2Model ----
(***************************************************************************)
(* Model of the Orchid language server core (lbfalvy/orchid-ls, server/):  *)
(* the JSON-RPC session kernel (jrpc.rs), the overlay store and workspace  *)
(* registry (cmd/fs.rs) and the edit-driven analysis workers               *)
(* (process_update in cmd/fs.rs, LoadedProject::new in orc/project.rs).    *)
(*                                                                         *)
(* Threads: the dispatch thread runs JrpcServer::recv for one message at a *)
(* time; every didOpen/didChange spawns a worker thread.  All of them      *)
(* contend for the one session mutex (Session = Arc<Mutex<State>>).        *)
(*                                                                         *)
(* Strings that the code inspects byte by byte (FileUri) are sequences of  *)
(* one-character strings.  Method names are plain strings.                 *)
(***************************************************************************)
EXTENDS Integers, Sequences, FiniteSets, TLC

VARIABLES
  context,   \* State.context (CtxMap): one optional slot per type
  heap,      \* the Arc<PatchStore> allocations: pointer -> PatchStore
  tokFlag,   \* the Arc<AtomicBool> allocations of Abort: token -> flag
  mutex,     \* holder of the session mutex: Free, Dispatch or a worker id
  poisoned,  \* the session mutex is poisoned (a holder panicked)
  dpc,       \* position of the dispatch thread inside recv
  dmsg,      \* the message recv is processing
  dres,      \* the result a sync handler returned, until the response is sent
  wk,        \* the worker threads, in spawn order
  ingress,   \* State.ingress: request id -> Abort token
  egress,    \* State.egress: request id -> callback (pending outgoing requests)
  nextReq,   \* NEXT_REQ
  areqs,     \* the AsyncReq objects handed to async handlers and still alive
  cbLog,     \* what registered test handlers and callbacks were invoked with
  out,       \* the outgoing stream: every value passed to State.send, in order
  outBy,     \* history: the thread that sent each element of out
  p1order,   \* history: workers in the order their Phase 1 completed
  closes,    \* history: number of didClose notifications handled
  clientOpen, \* the documents the editor has open (sent didOpen, no didClose yet)
  received   \* number of messages the protocol-level client has sent

vars == <<context, heap, tokFlag, mutex, poisoned, dpc, dmsg, dres, wk,
          ingress, egress, nextReq, areqs, cbLog, out, outBy, p1order, closes,
          clientOpen, received>>

-----------------------------------------------------------------------------
(* Bounds of the model *)

\* didOpen/didChange notifications that reach process_update (= workers spawned)
MaxEdits == 2
\* didClose notifications
MaxCloses == 1
\* document versions are drawn from 1..MaxVersion
MaxVersion == 2

-----------------------------------------------------------------------------
(* Option values *)

None == <<>>
Some(x) == <<x>>
IsSome(o) == o # <<>>
Unwrap(o) == o[1]

\* F applied to the value of x: x is evaluated once, however often F uses it
With(x, F(_)) == CHOOSE r \in { F(v) : v \in {x} } : TRUE

Free == 0
Dispatch == -1

-----------------------------------------------------------------------------
(* Byte strings *)

\* str::strip_prefix
StripPrefix(s, p) ==
  IF Len(p) <= Len(s) /\ SubSeq(s, 1, Len(p)) = p
  THEN Some(SubSeq(s, Len(p) + 1, Len(s)))
  ELSE None

\* str::split('/'): always at least one (possibly empty) piece; piece k lies
\* between the (k-1)-th and the k-th slash
SplitSlash(str) ==
  With(str, LAMBDA s :
    LET P == { i \in 1..Len(s) : s[i] = "/" }
        pos(k) == IF k = 0 THEN 0
                  ELSE IF k > Cardinality(P) THEN Len(s) + 1
                  ELSE CHOOSE i \in P : Cardinality({ j \in P : j < i }) = k - 1 IN
    [k \in 1..(Cardinality(P) + 1) |-> SubSeq(s, pos(k - 1) + 1, pos(k) - 1)])

\* the percent escapes of the model's alphabet
PctByte(h1, h2) ==
  IF h1 = "7" /\ h2 = "0" THEN Some("p")
  ELSE IF h1 = "7" /\ h2 = "8" THEN Some("x")
  ELSE IF h1 = "2" /\ h2 = "F" THEN Some("/")
  ELSE None

\* urlencoding::decode of one segment, from position i on
PctDecode(str) ==
  With(str, LAMBDA s :
    LET dec[i \in 1..(Len(s) + 1)] ==
          IF i > Len(s) THEN <<>>
          ELSE IF s[i] = "%" /\ i + 2 <= Len(s) /\ IsSome(PctByte(s[i + 1], s[i + 2]))
               THEN <<Unwrap(PctByte(s[i + 1], s[i + 2]))>> \o dec[i + 3]
               ELSE <<s[i]>> \o dec[i + 1] IN
    dec[1])

-----------------------------------------------------------------------------
(* FileUri (protocol/document.rs) *)

\* FileUri::segments
segments(u) ==
  With(SplitSlash(u), LAMBDA raw : [i \in 1..Len(raw) |-> PctDecode(raw[i])])

\* impl PartialEq for FileUri
UriEq(a, b) == segments(a) = segments(b)

\* to_vpath without the check for '/' after the prefix
to_vpath_noslash(self, prefix) ==
  With(StripPrefix(self, prefix), LAMBDA rest :
    IF ~IsSome(rest) THEN None
    ELSE IF Unwrap(rest) = <<>> THEN Some(<<>>)
    ELSE IF Unwrap(rest)[1] # "/" THEN Some(SplitSlash(Unwrap(rest)))
    ELSE Some(SplitSlash(Tail(Unwrap(rest)))))

\* FileUri::to_vpath: the remainder of self after prefix, as raw segments
to_vpath(self, prefix) ==
  With(StripPrefix(self, prefix), LAMBDA rest :
    IF ~IsSome(rest) THEN None
    ELSE IF Unwrap(rest) = <<>> THEN Some(<<>>)
    ELSE IF Unwrap(rest)[1] # "/" THEN None
    ELSE Some(SplitSlash(Tail(Unwrap(rest)))))

\* FileUri::extended: one "/" and the segment, for each segment
extended(self, segs) ==
  LET ext[i \in 0..Len(segs)] ==
        IF i = 0 THEN self ELSE ext[i - 1] \o <<"/">> \o segs[i] IN
  ext[Len(segs)]

\* PathSlice::strip_prefix as used by CtxProj::path_in
path_in(projPath, p) ==
  IF Len(projPath) <= Len(p) /\ SubSeq(p, 1, Len(projPath)) = projPath
  THEN Some(SubSeq(p, Len(projPath) + 1, Len(p)))
  ELSE None

-----------------------------------------------------------------------------
(* PatchStore (cmd/fs.rs) *)

\* PatchStore::new: the value behind the fresh Arc
PatchStore_new(basepath) == [basepath |-> basepath, patches |-> <<>>]

\* a lookup that compares the uris as the strings they were sent as
index_of_raw(store, uri) ==
  With({ i \in 1..Len(store.patches) : store.patches[i].uri = uri }, LAMBDA hits :
    IF hits = {} THEN None
    ELSE Some(CHOOSE i \in hits : \A j \in hits : i <= j))

\* PatchStore::index_of: position of the first record with an equal uri
index_of(store, uri) ==
  With({ i \in 1..Len(store.patches) : UriEq(store.patches[i].uri, uri) }, LAMBDA hits :
    IF hits = {} THEN None
    ELSE Some(CHOOSE i \in hits : \A j \in hits : i <= j))

\* a patch that overwrites whatever the versions are
patch_unguarded(store, p) ==
  LET i == index_of(store, p.uri) IN
  IF ~IsSome(i)
  THEN [store EXCEPT !.patches = Append(@, p)]
  ELSE [store EXCEPT !.patches[Unwrap(i)].version = p.version,
                     !.patches[Unwrap(i)].text = p.text]

\* PatchStore::patch
patch(store, p) ==
  LET idx == index_of(store, p.uri) IN
  IF ~IsSome(idx) THEN [store EXCEPT !.patches = Append(@, p)]
  ELSE LET i == Unwrap(idx) IN
       IF store.patches[i].version <= p.version
       THEN [store EXCEPT !.patches[i].version = p.version,
                          !.patches[i].text = p.text]
       ELSE store

\* an unpatch that drops every record of the overlay
unpatch_clear(store, uri) == [store EXCEPT !.patches = <<>>]

\* PatchStore::unpatch, the Some(i) arm (the None arm panics, see the callers)
unpatch(store, uri) ==
  LET i == Unwrap(index_of(store, uri)) IN
  [store EXCEPT !.patches =
     SubSeq(@, 1, i - 1) \o SubSeq(@, i + 1, Len(@))]

-----------------------------------------------------------------------------
(* The directory tree under the workspace folders, and project discovery *)

Sw == <<"w">>
Sp == <<"p">>
Sd == <<"d">>
Sx == <<"x">>
Sy == <<"y">>
Sinfo == <<"project_info">>

\* the files on disk (".orc" is implicit), as decoded path segments
DiskFiles == { <<Sw, Sp>>, <<Sw, Sd, Sinfo>>, <<Sw, Sd, Sx>>, <<Sw, Sd, Sy>> }

\* the files below a directory, relative to it
FilesUnder(files, dir) ==
  { SubSeq(f, Len(dir) + 1, Len(f)) :
      f \in { g \in files : Len(g) >= Len(dir) /\ SubSeq(g, 1, Len(dir)) = dir } }

\* names of the direct children of directory p
ChildrenOf(files, p) ==
  { f[Len(p) + 1] :
      f \in { g \in files : Len(g) > Len(p) /\ SubSeq(g, 1, Len(p)) = p } }

RECURSIVE SetToSeq(_)
SetToSeq(S) ==
  IF S = {} THEN <<>>
  ELSE LET x == CHOOSE y \in S : TRUE IN <<x>> \o SetToSeq(S \ {x})

\* one iteration that pushes a project directory and still descends into it
find_step_descend(files, queue, results, cs) ==
  LET p == Head(queue) IN
  IF p \in files
  THEN [queue |-> Tail(queue), results |-> Append(results, p)]
  ELSE IF cs = <<>>
  THEN [queue |-> Tail(queue), results |-> results]
  ELSE [queue |-> Tail(queue) \o [k \in 1..Len(cs) |-> Append(p, cs[k])],
        results |-> IF \E k \in 1..Len(cs) : cs[k] = Sinfo
                    THEN Append(results, p) ELSE results]

\* one iteration of the while loop of find_all_projects: p is popped from the
\* queue and vfs.read(p) is matched; cs is the collection read, in its order
find_step(files, queue, results, cs) ==
  LET p == Head(queue) IN
  IF p \in files
  THEN [queue |-> Tail(queue), results |-> Append(results, p)]
  ELSE IF cs = <<>>
  THEN [queue |-> Tail(queue), results |-> results]
  ELSE IF \E k \in 1..Len(cs) : cs[k] = Sinfo
  THEN [queue |-> Tail(queue), results |-> Append(results, p)]
  ELSE [queue |-> Tail(queue) \o [k \in 1..Len(cs) |-> Append(p, cs[k])],
        results |-> results]

\* the while loop of find_all_projects over its queue
RECURSIVE find_loop(_, _, _)
find_loop(files, queue, results) ==
  IF queue = <<>> THEN results
  ELSE With(find_step(files, queue, results,
                      SetToSeq(ChildrenOf(files, Head(queue)))),
            LAMBDA st : find_loop(files, st.queue, st.results))

\* find_all_projects(path, vfs) over the files the vfs shows
find_all_projects(path, files) == find_loop(files, <<path>>, <<>>)

-----------------------------------------------------------------------------
(* The workspace registry (cmd/fs.rs) *)

\* CtxProj::new, with the token Abort::new() returned
CtxProj_new(path, tok) == [path |-> path, changes |-> {}, abort |-> tok]

\* the projects find_all_projects discovers in a workspace folder
ProjectsOf(uri) == find_all_projects(<<>>, FilesUnder(DiskFiles, segments(uri)))

RECURSIVE ProjectsBefore(_, _)
ProjectsBefore(folders, i) ==
  IF i <= 1 THEN 0
  ELSE ProjectsBefore(folders, i - 1) + Len(ProjectsOf(folders[i - 1].uri))

\* WorkspaceCtx::new: workspace i gets store pointer ptr0 + i, its projects
\* the tokens after tok0, in allocation order
WorkspaceCtx_new(folders, ptr0, tok0) ==
  [i \in 1..Len(folders) |->
     LET ps == ProjectsOf(folders[i].uri) IN
     [name |-> folders[i].name,
      store |-> ptr0 + i,
      projects |-> [j \in 1..Len(ps) |->
                      CtxProj_new(ps[j], tok0 + ProjectsBefore(folders, i) + j)]]]

\* find_map from the back: the last project whose path is a prefix
get_proj_last(wsp, p) ==
  IF \E j \in 1..Len(wsp.projects) : IsSome(path_in(wsp.projects[j].path, p))
  THEN LET j == CHOOSE k \in 1..Len(wsp.projects) :
                  /\ IsSome(path_in(wsp.projects[k].path, p))
                  /\ \A l \in (k + 1)..Len(wsp.projects) :
                        ~IsSome(path_in(wsp.projects[l].path, p))
       IN Some([rel |-> Unwrap(path_in(wsp.projects[j].path, p)), proj |-> j])
  ELSE None

\* CtxWsp::get_proj / get_proj_mut: the first project whose path is a prefix
get_proj(wsp, p) ==
  IF \E j \in 1..Len(wsp.projects) : IsSome(path_in(wsp.projects[j].path, p))
  THEN LET j == CHOOSE k \in 1..Len(wsp.projects) :
                  /\ IsSome(path_in(wsp.projects[k].path, p))
                  /\ \A l \in 1..(k - 1) : ~IsSome(path_in(wsp.projects[l].path, p))
       IN Some([rel |-> Unwrap(path_in(wsp.projects[j].path, p)), proj |-> j])
  ELSE None

\* CtxWsp::path_in
wsp_path_in(wsp, store, uri) == to_vpath(uri, store[wsp.store].basepath)

\* the key without its sign: the longest remainder wins
wsp_key_pos(p) == Len(p)

\* the key of max_by_key (lines 158, 163): -(p.len() as i32)
wsp_key(p) == -Len(p)

\* WorkspaceCtx::get_wsp / get_wsp_mut: filter_map(path_in).max_by_key(key);
\* max_by_key returns the last of several maximal elements
get_wsp(wctx, store, uri) ==
  With([i \in 1..Len(wctx) |-> wsp_path_in(wctx[i], store, uri)], LAMBDA hit :
    LET cand == { i \in 1..Len(wctx) : IsSome(hit[i]) } IN
    IF cand = {} THEN None
    ELSE With([i \in cand |-> wsp_key(Unwrap(hit[i]))], LAMBDA key :
           LET best == CHOOSE i \in cand :
                         \A k \in cand :
                            \/ key[k] < key[i]
                            \/ (key[k] = key[i] /\ k <= i)
           IN Some([rel |-> Unwrap(hit[best]), wsp |-> best])))

\* WorkspaceCtx::get_proj_mut
get_proj_mut(wctx, store, uri) ==
  With(get_wsp(wctx, store, uri), LAMBDA w :
    IF ~IsSome(w) THEN None
    ELSE With(get_proj(wctx[Unwrap(w).wsp], Unwrap(w).rel), LAMBDA p :
           IF ~IsSome(p) THEN None
           ELSE Some([rel |-> Unwrap(p).rel, wsp |-> Unwrap(w).wsp,
                      proj |-> Unwrap(p).proj])))

-----------------------------------------------------------------------------
(* Shared allocations *)

\* a clone of the token allocated last instead of a new token
Abort_reused(flags) == Len(flags)

\* Abort::new: the token the next allocation returns
Abort_new(flags) == Len(flags) + 1

\* a store to the flag that is lost
abort_lost(flags, tok) == flags

\* a store that reaches the flag of every token
abort_all(flags, tok) == [t \in DOMAIN flags |-> TRUE]

\* Abort::abort
abort(flags, tok) == [flags EXCEPT ![tok] = TRUE]

\* a validity check that passes whatever the flag holds
is_valid_unchecked(flags, tok) == TRUE

\* Abort::is_valid (acquire load; called with the session mutex held)
is_valid(flags, tok) == ~flags[tok]

\* Abort::aborted (relaxed load): the values a poll may return
aborted(flags, tok) == IF flags[tok] THEN {TRUE, FALSE} ELSE {FALSE}

MaxPtr(h) == IF DOMAIN h = {} THEN 0 ELSE CHOOSE p \in DOMAIN h : \A q \in DOMAIN h : q <= p

FreshPtr(h) == CHOOSE p \in 1..(MaxPtr(h) + 1) :
                 p \notin DOMAIN h /\ \A q \in 1..(p - 1) : q \in DOMAIN h

\* worker threads that have not ended
\* "done": published; "cancelled": returned at line 224; "stale": returned at
\* line 246; "orphan": returned at line 254; "failed": the thread panicked on
\* an error of the analysis backend; "panicked": the thread panicked otherwise
Ended == {"done", "cancelled", "stale", "orphan", "failed", "panicked"}
Live(ws) == { v \in 1..Len(ws) : ws[v].pc \notin Ended }

\* pointers some Arc<PatchStore> still refers to
Held(ctx, ws) ==
  (IF IsSome(ctx.wctx)
   THEN { Unwrap(ctx.wctx)[i].store : i \in 1..Len(Unwrap(ctx.wctx)) }
   ELSE {})
  \cup { Unwrap(ws[v].snap) : v \in { u \in Live(ws) : IsSome(ws[u].snap) } }

\* dropping the last Arc frees the allocation
Collect(h, ctx, ws) == [p \in DOMAIN h \cap Held(ctx, ws) |-> h[p]]

\* a change that writes through the allocation whoever else refers to it
change_in_place(h, ptr, shared, newval) ==
  [heap |-> [h EXCEPT ![ptr] = newval], ptr |-> ptr]

\* PatchStore::change: unwrap_or_clone, apply, Arc::new
\* (shared: another Arc refers to the same allocation)
change(h, ptr, shared, newval) ==
  IF shared
  THEN LET n == FreshPtr(h) IN
       [heap |-> [p \in DOMAIN h \cup {n} |-> IF p = n THEN newval ELSE h[p]],
        ptr |-> n]
  ELSE [heap |-> [h EXCEPT ![ptr] = newval], ptr |-> ptr]

\* a set that replaces the value of an occupied slot without complaint
ctx_set_overwrite(ctx, slot, val) ==
  [items |-> [ctx EXCEPT ![slot] = Some(val)], ok |-> TRUE]

\* CtxMap::set: insert, then assert that the slot was empty
ctx_set(ctx, slot, val) ==
  [items |-> [ctx EXCEPT ![slot] = Some(val)], ok |-> ~IsSome(ctx[slot])]

-----------------------------------------------------------------------------
(* Outgoing messages (jrpc.rs State) *)

\* LSPErrCode -> i64 (protocol/error.rs CODE_MAP)
MethodNotFound == -32601
RequestFailed == -32803
RequestCancelled == -32800

Json == [jsonrpc |-> "", id |-> None, method |-> None,
         params |-> None, result |-> None, error |-> None]

\* the value is passed on as it came, without the version member
send_unversioned(o, data) == Append(o, data)

\* State::send
send(o, data) == Append(o, [data EXCEPT !.jsonrpc = "2.0"])

\* State::send_resp: an error without an LSPErrCode is sent as RequestFailed
send_resp(o, id, res) ==
  send(o, IF res.ok
          THEN [Json EXCEPT !.id = Some(id), !.result = Some(res.val)]
          ELSE [Json EXCEPT !.id = Some(id),
                            !.error = Some([code |-> IF IsSome(res.code)
                                                     THEN Unwrap(res.code)
                                                     ELSE RequestFailed])])

\* State::send_notif
send_notif(o, method, params) ==
  send(o, [Json EXCEPT !.method = Some(method), !.params = Some(params)])

\* State::send_request, the message part
send_request(o, id, method, params) ==
  send(o, [Json EXCEPT !.id = Some(id), !.method = Some(method),
                       !.params = Some(params)])

\* anyhow::Result<Value>: Ok(val), or an error that may carry an LSPErrCode
ResOk(v) == [ok |-> TRUE, val |-> v, code |-> None]
ResErr(c) == [ok |-> FALSE, val |-> "", code |-> c]

-----------------------------------------------------------------------------
(* Initial state: JrpcServer::new, handlers attached, nothing received *)

NoMsg == [method |-> None, id |-> None, params |-> [none |-> TRUE]]
NoRes == ResOk("")

Init ==
  /\ context = [wctx |-> None, trace |-> None]
  /\ heap = <<>>
  /\ tokFlag = <<>>
  /\ mutex = Free
  /\ poisoned = FALSE
  /\ dpc = "idle"
  /\ dmsg = NoMsg
  /\ dres = NoRes
  /\ wk = <<>>
  /\ ingress = <<>>
  /\ egress = <<>>
  /\ nextReq = 0
  /\ areqs = {}
  /\ cbLog = <<>>
  /\ out = <<>>
  /\ outBy = <<>>
  /\ p1order = <<>>
  /\ closes = 0
  /\ clientOpen = {}
  /\ received = 0

\* the handler tables after cmd::init::attach, cmd::logging::attach,
\* cmd::fs::attach, plus the test handlers "hello" and "test/async"
notif_hands == {"textDocument/didOpen", "textDocument/didChange",
                "textDocument/didClose", "initialized", "exit", "$/setTrace", "hello"}
sync_hands == {"initialize", "shutdown", "hello"}
async_hands == {"test/async"}

\* no name has the prefix
StartsWithNever(name) == FALSE

\* str::starts_with("$/") over the method names of the model
StartsWithDollarSlash(name) == name \in {"$/cancelRequest", "$/setTrace", "$/nonsense"}

-----------------------------------------------------------------------------
(* Messages the client sends *)

URI_W == <<"w">>
URI_P == <<"w", "/", "p">>
URI_P_ENC == <<"w", "/", "%", "7", "0">>
URI_X == <<"w", "/", "d", "/", "x">>
URI_Y == <<"w", "/", "d", "/", "y">>

EditUris == {URI_P, URI_P_ENC, URI_X, URI_Y}

FolderChoices == { <<>>, <<[name |-> "w", uri |-> URI_W]>> }

Notif(m, ps) == [method |-> Some(m), id |-> None, params |-> ps]
Request(m, i, ps) == [method |-> Some(m), id |-> Some(i), params |-> ps]

\* the text of the k-th edit is tagged k; text 0 is what the disk holds
DiskText == 0

InitializeMsgs == { Request("initialize", 0, [workspaceFolders |-> f]) : f \in FolderChoices }

DidOpenMsgs(k) ==
  { Notif("textDocument/didOpen",
          [uri |-> u, version |-> v, text |-> k, languageId |-> "orchid"]) :
      u \in EditUris, v \in 1..MaxVersion }

\* a document of another language: the handler returns at once
DidOpenOtherMsgs(k) ==
  { Notif("textDocument/didOpen",
          [uri |-> URI_P, version |-> 1, text |-> k, languageId |-> "plaintext"]) }

DidChangeMsgs(k) ==
  { Notif("textDocument/didChange", [uri |-> u, version |-> v, text |-> k]) :
      u \in EditUris, v \in 1..MaxVersion }

DidCloseMsgs == { Notif("textDocument/didClose", [uri |-> u]) : u \in EditUris }

\* The messages of an editing session, within the bounds.  The editor follows
\* the protocol: initialize once, didOpen for a document that is not open,
\* didChange and didClose for one that is.  Versions are not constrained.
EditorMsgs ==
  (IF ~IsSome(context.wctx) THEN InitializeMsgs ELSE {})
  \cup (IF Len(wk) < MaxEdits
        THEN { m \in DidOpenMsgs(Len(wk) + 1) : m.params.uri \notin clientOpen }
             \cup { m \in DidChangeMsgs(Len(wk) + 1) : m.params.uri \in clientOpen }
             \cup DidOpenOtherMsgs(Len(wk) + 1)
        ELSE {})
  \cup (IF closes < MaxCloses
        THEN { m \in DidCloseMsgs : m.params.uri \in clientOpen }
        ELSE {})

\* the editor's set of open documents after it sent msg
ClientAfter(msg) ==
  IF msg.method = Some("textDocument/didOpen") /\ msg.params.languageId = "orchid"
  THEN clientOpen \cup {msg.params.uri}
  ELSE IF msg.method = Some("textDocument/didClose")
  THEN clientOpen \ {msg.params.uri}
  ELSE clientOpen

-----------------------------------------------------------------------------
(* JrpcServer::recv on the dispatch thread *)

jrpcVars == <<ingress, egress, nextReq, areqs, cbLog>>
histVars == <<p1order, closes, clientOpen, received>>

\* the dispatch thread is the main thread: once it panics the process ends
Running == dpc \notin {"panicked", "exited"}

\* recv line 218: self.comm.0.lock().unwrap()
RecvLock(msg) ==
  /\ dpc = "idle"
  /\ mutex = Free
  /\ IF poisoned
     THEN /\ dpc' = "panicked"
          /\ UNCHANGED <<mutex, dmsg>>
     ELSE /\ mutex' = Dispatch
          /\ dpc' = "locked"
          /\ dmsg' = msg
  /\ UNCHANGED <<context, heap, tokFlag, poisoned, dres, wk, out, outBy>>
  /\ UNCHANGED jrpcVars
  /\ UNCHANGED <<p1order, closes>>

\* a guard that is still held when the handler is called
KeepGuard(holder) == holder

\* mem::drop(comm_guard) before a handler is called (recv lines 229, 240, 246)
DropGuard(holder) == Free

\* an unrecognized notification ends the server
NotifFatal(name) == IF name \in notif_hands THEN "handler" ELSE "panicked"

\* recv lines 226-232: a notification goes to its handler; one without a
\* handler is logged and recv returns
NotifNext(name) == IF name \in notif_hands THEN "handler" ELSE "idle"

\* no request is ever found
cancel_lookup_none(ing, id) == None

\* recv line 236: comm_guard.ingress.get(&cancel_id)
cancel_lookup(ing, id) == IF id \in DOMAIN ing THEN Some(ing[id]) ELSE None

\* the guard is released before the callback is called
BorrowGuard_dropped(holder) == Free

\* recv line 222: comm_guard.handle_resp(message) borrows the guard, which
\* lives on to the end of recv
BorrowGuard(holder) == holder

\* the callback stays registered after its response
egress_keep(e, id) == e

\* handle_resp lines 150-151: self.egress.remove(&req_id)
egress_remove(e, id) == [i \in DOMAIN e \ {id} |-> e[i]]

\* recv lines 219-264, up to the handler call or the end of recv
RecvDispatch ==
  /\ dpc = "locked"
  /\ LET name == Unwrap(dmsg.method) IN
     IF ~IsSome(dmsg.method)
     THEN \* a response: State::handle_resp, the guard stays held
          IF Unwrap(dmsg.id) \in DOMAIN egress
          THEN /\ egress' = egress_remove(egress, Unwrap(dmsg.id))
               /\ dpc' = "callback"
               /\ mutex' = BorrowGuard(mutex)
               /\ UNCHANGED <<poisoned, ingress, tokFlag, out, outBy>>
          ELSE /\ dpc' = "panicked"
               /\ poisoned' = TRUE
               /\ mutex' = Free
               /\ UNCHANGED <<egress, ingress, tokFlag, out, outBy>>
     ELSE IF ~IsSome(dmsg.id)
     THEN /\ dpc' = NotifNext(name)
          /\ mutex' = IF name \in notif_hands THEN DropGuard(mutex) ELSE Free
          /\ UNCHANGED <<poisoned, egress, ingress, tokFlag, out, outBy>>
     ELSE IF name = "$/cancelRequest"
     THEN /\ tokFlag' = IF IsSome(cancel_lookup(ingress, dmsg.params.id))
                        THEN abort(tokFlag, Unwrap(cancel_lookup(ingress, dmsg.params.id)))
                        ELSE tokFlag
          /\ dpc' = "idle"
          /\ mutex' = Free
          /\ UNCHANGED <<poisoned, egress, ingress, out, outBy>>
     ELSE IF name \in sync_hands
     THEN /\ dpc' = "handler"
          /\ mutex' = DropGuard(mutex)
          /\ UNCHANGED <<poisoned, egress, ingress, tokFlag, out, outBy>>
     ELSE IF name \in async_hands
     THEN /\ tokFlag' = Append(tokFlag, FALSE)
          /\ ingress' = [i \in DOMAIN ingress \cup {Unwrap(dmsg.id)} |->
                           IF i = Unwrap(dmsg.id) THEN Abort_new(tokFlag) ELSE ingress[i]]
          /\ dpc' = "handler"
          /\ mutex' = DropGuard(mutex)
          /\ UNCHANGED <<poisoned, egress, out, outBy>>
     ELSE IF StartsWithDollarSlash(name)
     THEN /\ out' = send_resp(out, Unwrap(dmsg.id), ResErr(Some(MethodNotFound)))
          /\ outBy' = Append(outBy, Dispatch)
          /\ dpc' = "idle"
          /\ mutex' = Free
          /\ UNCHANGED <<poisoned, egress, ingress, tokFlag>>
     ELSE /\ dpc' = "panicked"
          /\ poisoned' = TRUE
          /\ mutex' = Free
          /\ UNCHANGED <<egress, ingress, tokFlag, out, outBy>>
  /\ dmsg' = IF dpc' = "idle" THEN NoMsg ELSE dmsg
  /\ UNCHANGED <<context, heap, dres, wk, nextReq, areqs, cbLog>>
  /\ UNCHANGED histVars

-----------------------------------------------------------------------------
(* Handlers of cmd/fs.rs and cmd/init.rs, run by recv on the dispatch thread *)

\* process_update lines 188-193 and 271: the thread is spawned, nothing else
NewWorker(via, p) ==
  [pc |-> "spawned", via |-> via, patch |-> p, snap |-> None, abort |-> 0,
   changes |-> {}, root |-> <<>>, todo |-> {}, file_tokens |-> <<>>,
   \* history: the registry slot and the path Phase 1 resolved the uri to,
   \* and the overlay record of the uri when Phase 1 had patched the store
   proj |-> <<0, 0>>, rel |-> <<>>, stored |-> [text |-> 0, version |-> 0]]

process_update(ws, via, p) == Append(ws, NewWorker(via, p))

PatchOf(ps) == [uri |-> ps.uri, text |-> ps.text, version |-> ps.version]

\* textDocument/didOpen (fs.rs 275-284)
HandlerDidOpen ==
  /\ dpc = "handler"
  /\ dmsg.method = Some("textDocument/didOpen")
  /\ wk' = IF dmsg.params.languageId # "orchid"
           THEN wk
           ELSE process_update(wk, "didOpen", PatchOf(dmsg.params))
  /\ dpc' = "idle"
  /\ dmsg' = NoMsg
  /\ UNCHANGED <<context, heap, tokFlag, mutex, poisoned, dres, out, outBy>>
  /\ UNCHANGED jrpcVars
  /\ UNCHANGED histVars

\* textDocument/didChange (fs.rs 293-304)
HandlerDidChange ==
  /\ dpc = "handler"
  /\ dmsg.method = Some("textDocument/didChange")
  /\ wk' = process_update(wk, "didChange", PatchOf(dmsg.params))
  /\ dpc' = "idle"
  /\ dmsg' = NoMsg
  /\ UNCHANGED <<context, heap, tokFlag, mutex, poisoned, dres, out, outBy>>
  /\ UNCHANGED jrpcVars
  /\ UNCHANGED histVars

\* enum TraceValue (logging.rs 5-9), by the strings that select its variants
TraceValue == {"off", "messages", "verbose"}

\* handlers whose first shared access is Session::lock / Session::set /
\* Session::request
LockingHandlers == {"textDocument/didClose", "initialize", "$/setTrace", "initialized"}

\* Session::lock on the dispatch thread, inside a handler (jrpc.rs 177-184)
HandlerLock ==
  /\ dpc = "handler"
  /\ Unwrap(dmsg.method) \in LockingHandlers
  /\ dmsg.method = Some("$/setTrace") => dmsg.params.value \in TraceValue
  /\ mutex = Free
  /\ IF poisoned
     THEN dpc' = "panicked" /\ UNCHANGED mutex
     ELSE dpc' = "hlocked" /\ mutex' = Dispatch
  /\ UNCHANGED <<context, heap, tokFlag, poisoned, dmsg, dres, wk, out, outBy>>
  /\ UNCHANGED jrpcVars
  /\ UNCHANGED histVars

\* another Arc than the workspace's own refers to the allocation
SharedPtr(ws, ptr) == \E v \in Live(ws) : ws[v].snap = Some(ptr)

\* textDocument/didClose with the session locked (fs.rs 288-292)
CloseBody ==
  /\ dpc = "hlocked"
  /\ dmsg.method = Some("textDocument/didClose")
  /\ closes' = closes + 1
  /\ LET uri == dmsg.params.uri
         found == IF IsSome(context.wctx)
                  THEN get_wsp(Unwrap(context.wctx), heap, uri)
                  ELSE None
         wi == Unwrap(found).wsp
         ptr == Unwrap(context.wctx)[wi].store
         ch == change(heap, ptr, SharedPtr(wk, ptr), unpatch(heap[ptr], uri)) IN
     IF ~IsSome(context.wctx) \/ ~IsSome(found) \/ ~IsSome(index_of(heap[ptr], uri))
     THEN \* unwrap of None, or "No existing patch!"
          /\ dpc' = "panicked"
          /\ poisoned' = TRUE
          /\ dmsg' = dmsg
          /\ UNCHANGED <<context, heap>>
     ELSE /\ heap' = ch.heap
          /\ context' = [context EXCEPT !.wctx[1][wi].store = ch.ptr]
          /\ dpc' = "idle"
          /\ dmsg' = NoMsg
          /\ UNCHANGED poisoned
  /\ mutex' = Free
  /\ UNCHANGED <<tokFlag, dres, wk, out, outBy, p1order, clientOpen, received>>
  /\ UNCHANGED jrpcVars

\* initialize with the session locked by Session::set (init.rs 11-35)
InitializeBody ==
  /\ dpc = "hlocked"
  /\ dmsg.method = Some("initialize")
  /\ LET folders == dmsg.params.workspaceFolders
         wctx == WorkspaceCtx_new(folders, MaxPtr(heap), Len(tokFlag))
         nproj == ProjectsBefore(folders, Len(folders) + 1)
         stored == [p \in DOMAIN heap \cup { wctx[i].store : i \in 1..Len(wctx) } |->
                      IF p \in DOMAIN heap THEN heap[p]
                      ELSE PatchStore_new(folders[p - MaxPtr(heap)].uri)]
         r == ctx_set(context, "wctx", wctx) IN
     /\ context' = r.items
     /\ heap' = Collect(stored, r.items, wk)
     /\ tokFlag' = tokFlag \o [j \in 1..nproj |-> FALSE]
     /\ IF r.ok
        THEN /\ dres' = ResOk("capabilities")
             /\ dpc' = "respond"
             /\ UNCHANGED poisoned
        ELSE \* "Context cannot be reassigned"
             /\ dpc' = "panicked"
             /\ poisoned' = TRUE
             /\ UNCHANGED dres
  /\ mutex' = Free
  /\ UNCHANGED <<dmsg, wk, out, outBy>>
  /\ UNCHANGED jrpcVars
  /\ UNCHANGED histVars

\* recv line 242: lock again and send the response of a sync handler
Respond ==
  /\ dpc = "respond"
  /\ mutex = Free
  /\ IF poisoned
     THEN /\ dpc' = "panicked"
          /\ UNCHANGED <<out, outBy, dmsg, dres>>
     ELSE /\ out' = send_resp(out, Unwrap(dmsg.id), dres)
          /\ outBy' = Append(outBy, Dispatch)
          /\ dpc' = "idle"
          /\ dmsg' = NoMsg
          /\ dres' = NoRes
  /\ UNCHANGED <<context, heap, tokFlag, mutex, poisoned, wk>>
  /\ UNCHANGED jrpcVars
  /\ UNCHANGED histVars

-----------------------------------------------------------------------------
(* The worker thread of process_update (fs.rs 191-270) *)

\* a worker thread ends: its locals (the Arcs among them) are dropped
EndWorker(me, how) ==
  [me EXCEPT !.pc = how, !.snap = None, !.changes = {}, !.todo = {},
             !.file_tokens = <<>>]

\* line 195: session.lock()
P1Lock(w) ==
  /\ Running
  /\ wk[w].pc = "spawned"
  /\ mutex = Free
  /\ IF poisoned
     THEN wk' = [wk EXCEPT ![w] = EndWorker(@, "panicked")] /\ UNCHANGED mutex
     ELSE wk' = [wk EXCEPT ![w].pc = "phase1"] /\ mutex' = w
  /\ UNCHANGED <<context, heap, tokFlag, poisoned, dpc, dmsg, dres, out, outBy>>
  /\ UNCHANGED jrpcVars
  /\ UNCHANGED histVars

\* the set is replaced by the new path instead of extended
changes_replaced(changes, path) == {path}

\* line 211: proj.changes.insert(in_proj.to_vpath())
changes_insert(changes, path) == changes \cup {path}

\* the guard is leaked: the mutex stays locked
mem_forget(g) == g

\* line 214: mem::drop(g) ends the first critical section
mem_drop(g) == Free

\* the guard is released without a mark on the mutex
panic_with_guard_clean(p) == p

\* lines 196, 198, 205: unwrap of None or panic! while g, the guard of line
\* 195, is alive: unwinding drops g and the mutex is poisoned
panic_with_guard(p) == TRUE

\* Phase 1, lines 196-214, with the session locked
Phase1(w) ==
  /\ Running
  /\ wk[w].pc = "phase1"
  /\ LET me == wk[w]
         uri == me.patch.uri
         wctx == Unwrap(context.wctx)
         found == IF IsSome(context.wctx) THEN get_wsp(wctx, heap, uri) ELSE None
         wi == Unwrap(found).wsp
         in_wsp == Unwrap(found).rel
         ptr == wctx[wi].store
         ch == change(heap, ptr, SharedPtr(wk, ptr), patch(heap[ptr], me.patch))
         pr == get_proj(wctx[wi], in_wsp)
         pj == Unwrap(pr).proj
         in_proj == Unwrap(pr).rel
         proj == wctx[wi].projects[pj]
         tok == Abort_new(tokFlag)
         newChanges == changes_insert(proj.changes, in_proj)
         panicked == [wk EXCEPT ![w] = EndWorker(@, "panicked")] IN
     IF ~IsSome(context.wctx) \/ ~IsSome(found)
     THEN \* unwrap of None at line 196 or 198
          /\ wk' = panicked
          /\ poisoned' = panic_with_guard(poisoned)
          /\ UNCHANGED <<context, heap, tokFlag, p1order>>
     ELSE IF ~IsSome(pr)
     THEN \* line 205, after the store was patched
          /\ wk' = panicked
          /\ poisoned' = panic_with_guard(poisoned)
          /\ context' = [context EXCEPT !.wctx[1][wi].store = ch.ptr]
          /\ heap' = Collect(ch.heap, context', wk')
          /\ UNCHANGED <<tokFlag, p1order>>
     ELSE /\ context' = [context EXCEPT
                           !.wctx[1][wi].store = ch.ptr,
                           !.wctx[1][wi].projects[pj].abort = tok,
                           !.wctx[1][wi].projects[pj].changes = newChanges]
          /\ heap' = ch.heap
          /\ tokFlag' = Append(abort(tokFlag, proj.abort), FALSE)
          /\ wk' = [wk EXCEPT ![w] =
                      [@ EXCEPT !.pc = "load", !.snap = Some(ch.ptr), !.abort = tok,
                                !.changes = newChanges, !.root = proj.path,
                                !.proj = <<wi, pj>>, !.rel = in_proj,
                                !.stored = LET st == ch.heap[ch.ptr]
                                               rec == st.patches[Unwrap(index_of(st, uri))]
                                           IN [text |-> rec.text, version |-> rec.version]]]
          /\ p1order' = Append(p1order, w)
          /\ UNCHANGED poisoned
  /\ mutex' = IF wk'[w].pc = "load" THEN mem_drop(mutex) ELSE Free
  /\ UNCHANGED <<dpc, dmsg, dres, out, outBy, closes, clientOpen, received>>
  /\ UNCHANGED jrpcVars

\* the outcomes of the analysis backend (Loader, MacroRunner, module_tokens,
\* a read of the directory tree): it succeeds or reports an error
BackendOutcomes == {"ok", "error"}

\* a loop that visits nothing
into_iter_empty(changes) == {}

\* line 222: changes.into_iter(), the paths the loop has yet to visit
into_iter(changes) == changes

\* Phase 2, lines 215-221: LoadedProject::new (project.rs 60-98); an Err,
\* also the one an observed abort returns, is turned into a panic at line 216
Phase2Load(w) ==
  /\ Running
  /\ wk[w].pc = "load"
  /\ \E seen \in aborted(tokFlag, wk[w].abort), backend \in BackendOutcomes :
       IF seen \/ backend = "error"
       THEN /\ wk' = [wk EXCEPT ![w] =
                        EndWorker(@, IF backend = "error" THEN "failed" ELSE "panicked")]
            /\ heap' = Collect(heap, context, wk')
       ELSE /\ wk' = [wk EXCEPT ![w].pc = "files", ![w].todo = into_iter(wk[w].changes)]
            /\ UNCHANGED heap
  /\ UNCHANGED <<context, tokFlag, mutex, poisoned, dpc, dmsg, dres, out, outBy>>
  /\ UNCHANGED jrpcVars
  /\ UNCHANGED histVars

\* PatchFS::get through the worker's snapshot (fs.rs 96-102): the patched
\* text if the overlay has a record for the file, else what the disk holds
vfs_get(store, root, path) ==
  With(index_of(store, extended(extended(store.basepath, root), path)), LAMBDA idx :
    IF IsSome(idx) THEN store.patches[Unwrap(idx)].text ELSE DiskText)

\* the tokens the backend computes for a file are a function of its text
Tokens(text) == text

\* Phase 2, lines 222-241: one iteration of the loop over changes
Phase2File(w) ==
  /\ Running
  /\ wk[w].pc = "files"
  /\ wk[w].todo # {}
  /\ \E path \in wk[w].todo, seen \in aborted(tokFlag, wk[w].abort),
        backend \in BackendOutcomes :
       IF seen
       THEN \* line 224
            /\ wk' = [wk EXCEPT ![w] = EndWorker(@, "cancelled")]
            /\ heap' = Collect(heap, context, wk')
       ELSE IF backend = "error"
       THEN \* lines 226-231: expect, unwrap or panic!
            /\ wk' = [wk EXCEPT ![w] = EndWorker(@, "failed")]
            /\ heap' = Collect(heap, context, wk')
       ELSE LET src == vfs_get(heap[Unwrap(wk[w].snap)], wk[w].root, path)
                ft == wk[w].file_tokens IN
            /\ wk' = [wk EXCEPT
                        ![w].todo = @ \ {path},
                        ![w].file_tokens =
                           [q \in DOMAIN ft \cup {path} |->
                              IF q = path THEN Tokens(src) ELSE ft[q]]]
            /\ UNCHANGED heap
  /\ UNCHANGED <<context, tokFlag, mutex, poisoned, dpc, dmsg, dres, out, outBy>>
  /\ UNCHANGED jrpcVars
  /\ UNCHANGED histVars

\* line 242: session.lock()
P3Lock(w) ==
  /\ Running
  /\ wk[w].pc = "files"
  /\ wk[w].todo = {}
  /\ mutex = Free
  /\ IF poisoned
     THEN /\ wk' = [wk EXCEPT ![w] = EndWorker(@, "panicked")]
          /\ heap' = Collect(heap, context, wk')
          /\ UNCHANGED mutex
     ELSE /\ wk' = [wk EXCEPT ![w].pc = "phase3"]
          /\ mutex' = w
          /\ UNCHANGED heap
  /\ UNCHANGED <<context, tokFlag, poisoned, dpc, dmsg, dres, out, outBy>>
  /\ UNCHANGED jrpcVars
  /\ UNCHANGED histVars

\* the orders in which a HashMap may yield its keys
Orders(S) ==
  { o \in [1..Cardinality(S) -> S] : \A i, j \in 1..Cardinality(S) : o[i] = o[j] => i = j }

\* lines 259-269: one notification per entry of file_tokens
notify_all(o, base, root, ft, order) ==
  o \o [k \in 1..Len(order) |->
         send_notif(<<>>, "client/syntacticTokens",
                    [uri |-> extended(extended(base, root), order[k]),
                     tokens |-> ft[order[k]]])[1]]

\* Phase 3, lines 245-269, with the session locked
Phase3(w) ==
  /\ Running
  /\ wk[w].pc = "phase3"
  /\ LET me == wk[w]
         wctx == Unwrap(context.wctx)
         found == get_proj_mut(wctx, heap, me.patch.uri)
         wi == Unwrap(found).wsp
         pj == Unwrap(found).proj
         base == heap[wctx[wi].store].basepath
         root == wctx[wi].projects[pj].path IN
     IF ~is_valid(tokFlag, me.abort)
     THEN \* line 246
          /\ wk' = [wk EXCEPT ![w] = EndWorker(@, "stale")]
          /\ UNCHANGED <<context, out, outBy>>
     ELSE IF ~IsSome(found)
     THEN \* line 254
          /\ wk' = [wk EXCEPT ![w] = EndWorker(@, "orphan")]
          /\ UNCHANGED <<context, out, outBy>>
     ELSE /\ context' = [context EXCEPT !.wctx[1][wi].projects[pj].changes = {}]
          /\ \E order \in Orders(DOMAIN me.file_tokens) :
               /\ out' = notify_all(out, base, root, me.file_tokens, order)
               /\ outBy' = outBy \o [k \in 1..Len(order) |-> w]
          /\ wk' = [wk EXCEPT ![w] = EndWorker(@, "done")]
  /\ heap' = Collect(heap, context', wk')
  /\ mutex' = Free
  /\ UNCHANGED <<tokFlag, poisoned, dpc, dmsg, dres>>
  /\ UNCHANGED jrpcVars
  /\ UNCHANGED histVars

-----------------------------------------------------------------------------
(* The editing session: initialize, edits and closes, and their workers *)

Recv ==
  \E msg \in EditorMsgs :
    RecvLock(msg) /\ clientOpen' = ClientAfter(msg) /\ UNCHANGED received

Worker ==
  \E w \in 1..Len(wk) :
    \/ P1Lock(w)
    \/ Phase1(w)
    \/ Phase2Load(w)
    \/ Phase2File(w)
    \/ P3Lock(w)
    \/ Phase3(w)

Next ==
  \/ Recv
  \/ RecvDispatch
  \/ HandlerDidOpen
  \/ HandlerDidChange
  \/ HandlerLock
  \/ CloseBody
  \/ InitializeBody
  \/ Respond
  \/ Worker

Spec == Init /\ [][Next]_vars

-----------------------------------------------------------------------------
(* Edits of one project on a scheduler that lets every thread run *)

\* the documents of the project at w/d
ProjectUris == {URI_X, URI_Y}

\* The editor opens the workspace folder and edits documents of one project;
\* the version of the k-th edit is k.  It closes nothing.
ProjectEditMsgs ==
  { m \in EditorMsgs :
      \/ /\ m.method = Some("initialize")
         /\ m.params.workspaceFolders # <<>>
      \/ /\ m.method \in {Some("textDocument/didOpen"), Some("textDocument/didChange")}
         /\ m.params.uri \in ProjectUris
         /\ m.params.version = Len(wk) + 1
         /\ IsSome(context.wctx) }

RecvEdit ==
  \E msg \in ProjectEditMsgs :
    RecvLock(msg) /\ clientOpen' = ClientAfter(msg) /\ UNCHANGED received

\* what the dispatch thread does once recv holds a message
DispatchStep ==
  \/ RecvDispatch
  \/ HandlerDidOpen
  \/ HandlerDidChange
  \/ HandlerLock
  \/ InitializeBody
  \/ Respond

NextFair == RecvEdit \/ DispatchStep \/ Worker

\* The dispatch thread finishes the message it holds, and a spawned worker
\* thread that can take a step takes one.  The editor is not obliged to send
\* anything.
FairSpec == Init /\ [][NextFair]_vars /\ WF_vars(DispatchStep) /\ WF_vars(Worker)

-----------------------------------------------------------------------------
(* The handlers of cmd/init.rs and cmd/logging.rs, the handlers the tests  *)
(* of jrpc.rs register, and an async handler that keeps its AsyncReq       *)

\* the thread an async handler passed its AsyncReq to
Holder == -2

\* initialized (init.rs 38-59): Session::request with the session locked
InitializedBody ==
  /\ dpc = "hlocked"
  /\ dmsg.method = Some("initialized")
  /\ egress' = [i \in DOMAIN egress \cup {nextReq} |-> "registerCapability"]
  /\ nextReq' = nextReq + 1
  /\ out' = send_request(out, nextReq, "client/registerCapability",
                         [registrations |-> "file-watcher-registration-id"])
  /\ outBy' = Append(outBy, Dispatch)
  /\ dpc' = "idle"
  /\ dmsg' = NoMsg
  /\ mutex' = Free
  /\ UNCHANGED <<context, heap, tokFlag, poisoned, dres, wk, ingress, areqs, cbLog>>
  /\ UNCHANGED histVars

\* $/setTrace (logging.rs 23-28): a value that names no variant panics
SetTraceReject ==
  /\ dpc = "handler"
  /\ dmsg.method = Some("$/setTrace")
  /\ dmsg.params.value \notin TraceValue
  /\ dpc' = "panicked"
  /\ UNCHANGED <<context, heap, tokFlag, mutex, poisoned, dmsg, dres, wk, out, outBy>>
  /\ UNCHANGED jrpcVars
  /\ UNCHANGED histVars

\* $/setTrace (logging.rs 29): Session::set with the session locked
SetTraceBody ==
  /\ dpc = "hlocked"
  /\ dmsg.method = Some("$/setTrace")
  /\ LET r == ctx_set(context, "trace", dmsg.params.value) IN
     /\ context' = r.items
     /\ IF r.ok
        THEN dpc' = "idle" /\ dmsg' = NoMsg /\ UNCHANGED poisoned
        ELSE dpc' = "panicked" /\ poisoned' = TRUE /\ UNCHANGED dmsg
  /\ mutex' = Free
  /\ UNCHANGED <<heap, tokFlag, dres, wk, out, outBy>>
  /\ UNCHANGED jrpcVars
  /\ UNCHANGED histVars

\* shutdown (init.rs 60-63)
HandlerShutdown ==
  /\ dpc = "handler"
  /\ dmsg.method = Some("shutdown")
  /\ dres' = ResOk("null")
  /\ dpc' = "respond"
  /\ UNCHANGED <<context, heap, tokFlag, mutex, poisoned, dmsg, wk, out, outBy>>
  /\ UNCHANGED jrpcVars
  /\ UNCHANGED histVars

\* exit (init.rs 64-67): process::exit(0)
HandlerExit ==
  /\ dpc = "handler"
  /\ dmsg.method = Some("exit")
  /\ dpc' = "exited"
  /\ UNCHANGED <<context, heap, tokFlag, mutex, poisoned, dmsg, dres, wk, out, outBy>>
  /\ UNCHANGED jrpcVars
  /\ UNCHANGED histVars

\* the notification handler of test notif (jrpc.rs 281)
HandlerHelloNotif ==
  /\ dpc = "handler"
  /\ dmsg.method = Some("hello")
  /\ ~IsSome(dmsg.id)
  /\ cbLog' = Append(cbLog, [by |-> "hello", arg |-> dmsg.params])
  /\ dpc' = "idle"
  /\ dmsg' = NoMsg
  /\ UNCHANGED <<context, heap, tokFlag, mutex, poisoned, dres, wk, out, outBy,
                 ingress, egress, nextReq, areqs>>
  /\ UNCHANGED histVars

\* the request handler of test sync_req (jrpc.rs 291-294)
HandlerHelloSync ==
  /\ dpc = "handler"
  /\ dmsg.method = Some("hello")
  /\ IsSome(dmsg.id)
  /\ dres' = ResOk(dmsg.params.value)
  /\ dpc' = "respond"
  /\ UNCHANGED <<context, heap, tokFlag, mutex, poisoned, dmsg, wk, out, outBy>>
  /\ UNCHANGED jrpcVars
  /\ UNCHANGED histVars

\* an async handler: it is called with the AsyncReq of recv lines 247-254
\* and hands it to another thread
HandlerAsync ==
  /\ dpc = "handler"
  /\ Unwrap(dmsg.method) \in async_hands
  /\ areqs' = areqs \cup {[id |-> Unwrap(dmsg.id), abort |-> ingress[Unwrap(dmsg.id)]]}
  /\ dpc' = "idle"
  /\ dmsg' = NoMsg
  /\ UNCHANGED <<context, heap, tokFlag, mutex, poisoned, dres, wk, out, outBy,
                 ingress, egress, nextReq, cbLog>>
  /\ UNCHANGED histVars

\* State::handle_resp line 152: the callback of the request runs, the guard
\* of recv still held; the callback of initialized unwraps the result
CallbackRun ==
  /\ dpc = "callback"
  /\ IF dmsg.params.ok
     THEN dpc' = "idle" /\ dmsg' = NoMsg /\ UNCHANGED poisoned
     ELSE dpc' = "panicked" /\ poisoned' = TRUE /\ UNCHANGED dmsg
  /\ cbLog' = Append(cbLog, [by |-> "callback",
                              arg |-> [id |-> Unwrap(dmsg.id), ok |-> dmsg.params.ok]])
  /\ mutex' = Free
  /\ UNCHANGED <<context, heap, tokFlag, dres, wk, out, outBy>>
  /\ UNCHANGED <<ingress, egress, nextReq, areqs>>
  /\ UNCHANGED histVars

\* the request stays unresolved: the object is alive after its response
resolve_unmarked(reqs, r) == reqs

\* AsyncReq::resolve (jrpc.rs 49): it takes self by value and resolve_impl
\* sets resolved first, so the Drop that follows at its end does nothing
resolve(reqs, r) == reqs \ {r}

\* AsyncReq::resolve (jrpc.rs 49-53), then Drop with resolved set
AsyncResolve ==
  /\ Running
  /\ mutex = Free
  /\ \E r \in areqs :
       /\ areqs' = resolve(areqs, r)
       /\ IF poisoned
          THEN UNCHANGED <<out, outBy>>
          ELSE /\ out' = send_resp(out, r.id, ResOk("done"))
               /\ outBy' = Append(outBy, Holder)
  /\ UNCHANGED <<context, heap, tokFlag, mutex, poisoned, dpc, dmsg, dres, wk,
                 ingress, egress, nextReq, cbLog>>
  /\ UNCHANGED histVars

\* Drop for AsyncReq (jrpc.rs 55-65), not resolved: a cancellation the poll
\* observes is answered with RequestCancelled
AsyncDrop ==
  /\ Running
  /\ \E r \in areqs : \E seen \in aborted(tokFlag, r.abort) :
       /\ areqs' = areqs \ {r}
       /\ IF seen
          THEN /\ mutex = Free
               /\ IF poisoned
                  THEN UNCHANGED <<out, outBy>>
                  ELSE /\ out' = send_resp(out, r.id, ResErr(Some(RequestCancelled)))
                       /\ outBy' = Append(outBy, Holder)
          ELSE UNCHANGED <<out, outBy>>
  /\ UNCHANGED <<context, heap, tokFlag, mutex, poisoned, dpc, dmsg, dres, wk,
                 ingress, egress, nextReq, cbLog>>
  /\ UNCHANGED histVars

-----------------------------------------------------------------------------
(* A client that sends any message of the protocol kernel *)

MaxMsgs == 3
MaxId == 1

RpcMsgs ==
  { Request("initialize", i, [workspaceFolders |-> f]) : i \in 0..MaxId, f \in FolderChoices }
  \cup { Request(m, i, [value |-> "World!"]) :
           m \in {"shutdown", "hello", "test/async", "$/nonsense", "$/setTrace",
                  "nonsense"},
           i \in 0..MaxId }
  \cup { Request("$/cancelRequest", i, [id |-> j]) : i, j \in 0..MaxId }
  \cup { Notif("$/cancelRequest", [id |-> j]) : j \in 0..MaxId }
  \cup { Notif(m, [value |-> "World!"]) : m \in {"initialized", "exit", "hello", "nonsense"} }
  \cup { Notif("$/setTrace", [value |-> v]) : v \in {"off", "messages", "bogus"} }
  \cup { [method |-> None, id |-> Some(j), params |-> [ok |-> b]] :
           j \in 0..MaxId, b \in BOOLEAN }

RecvRpc ==
  /\ received < MaxMsgs
  /\ \E msg \in RpcMsgs : RecvLock(msg)
  /\ received' = received + 1
  /\ UNCHANGED clientOpen

NextRpc ==
  \/ RecvRpc
  \/ RecvDispatch
  \/ HandlerLock
  \/ InitializeBody
  \/ InitializedBody
  \/ SetTraceReject
  \/ SetTraceBody
  \/ HandlerShutdown
  \/ HandlerExit
  \/ HandlerHelloNotif
  \/ HandlerHelloSync
  \/ HandlerAsync
  \/ CallbackRun
  \/ Respond
  \/ AsyncResolve
  \/ AsyncDrop

SpecRpc == Init /\ [][NextRpc]_vars

-----------------------------------------------------------------------------
(* A PatchStore on its own: any sequence of patch and unpatch calls *)

\* PatchStore::new(basepath), nothing else in existence
InitStore ==
  /\ context = [wctx |-> None, trace |-> None]
  /\ heap = <<PatchStore_new(URI_W)>>
  /\ tokFlag = <<>>
  /\ mutex = Free
  /\ poisoned = FALSE
  /\ dpc = "idle"
  /\ dmsg = NoMsg
  /\ dres = NoRes
  /\ wk = <<>>
  /\ ingress = <<>>
  /\ egress = <<>>
  /\ nextReq = 0
  /\ areqs = {}
  /\ cbLog = <<>>
  /\ out = <<>>
  /\ outBy = <<>>
  /\ p1order = <<>>
  /\ closes = 0
  /\ clientOpen = {}
  /\ received = 0

storeOnly == <<context, tokFlag, mutex, poisoned, dres, wk, ingress, egress, nextReq,
               areqs, cbLog, out, outBy, p1order, closes, clientOpen, received>>

\* store.patch(p); dmsg records the call
StorePatch ==
  /\ Running
  /\ \E u \in EditUris, v \in 1..MaxVersion, t \in 1..MaxEdits :
       LET p == [uri |-> u, text |-> t, version |-> v] IN
       /\ heap' = [heap EXCEPT ![1] = patch(heap[1], p)]
       /\ dmsg' = Notif("patch", p)
  /\ UNCHANGED dpc
  /\ UNCHANGED storeOnly

\* store.unpatch(uri); the None arm panics
StoreUnpatch ==
  /\ Running
  /\ \E u \in EditUris :
       /\ dmsg' = Notif("unpatch", [uri |-> u])
       /\ IF IsSome(index_of(heap[1], u))
          THEN heap' = [heap EXCEPT ![1] = unpatch(heap[1], u)] /\ UNCHANGED dpc
          ELSE dpc' = "panicked" /\ UNCHANGED heap
  /\ UNCHANGED storeOnly

NextStore == StorePatch \/ StoreUnpatch

SpecStore == InitStore /\ [][NextStore]_vars

-----------------------------------------------------------------------------
(* A workspace registry on its own: get_wsp over any list of workspaces *)

\* workspace folders per registry
MaxWsp == 2

\* basepaths of the workspace folders: the root, a, a/b, a/bc and w
LookupBases ==
  { <<>>, <<"a">>, <<"a", "/", "b">>, <<"a", "/", "b", "c">>, URI_W }

\* the uris looked up: a, a/b, a/bc, a/b/x, a/bc/x, c and w/p
LookupUris ==
  { <<"a">>, <<"a", "/", "b">>, <<"a", "/", "b", "c">>, <<"a", "/", "b", "/", "x">>,
    <<"a", "/", "b", "c", "/", "x">>, <<"c">>, URI_P }

LookupFolders ==
  UNION { [1..n -> { [name |-> "f", uri |-> b] : b \in LookupBases }] : n \in 0..MaxWsp }

\* the session after WorkspaceCtx::new(folders) was installed
InitWsp ==
  \E folders \in LookupFolders :
    /\ context = [wctx |-> Some(WorkspaceCtx_new(folders, 0, 0)), trace |-> None]
    /\ heap = [i \in 1..Len(folders) |-> PatchStore_new(folders[i].uri)]
    /\ tokFlag = [j \in 1..ProjectsBefore(folders, Len(folders) + 1) |-> FALSE]
    /\ mutex = Free
    /\ poisoned = FALSE
    /\ dpc = "idle"
    /\ dmsg = NoMsg
    /\ dres = NoRes
    /\ wk = <<>>
    /\ ingress = <<>>
    /\ egress = <<>>
    /\ nextReq = 0
    /\ areqs = {}
    /\ cbLog = <<>>
    /\ out = <<>>
    /\ outBy = <<>>
    /\ p1order = <<>>
    /\ closes = 0
    /\ clientOpen = {}
    /\ received = 0

\* fsctx.get_wsp(&uri); dmsg records the call and dres what it returned
WspLookup ==
  /\ \E u \in LookupUris :
       /\ dmsg' = Notif("get_wsp", [uri |-> u])
       /\ dres' = ResOk(get_wsp(Unwrap(context.wctx), heap, u))
  /\ UNCHANGED <<context, heap, tokFlag, mutex, poisoned, dpc, wk, out, outBy>>
  /\ UNCHANGED jrpcVars
  /\ UNCHANGED histVars

NextWsp == WspLookup

SpecWsp == InitWsp /\ [][NextWsp]_vars

-----------------------------------------------------------------------------
(* Vocabulary of the properties *)

Workers == 1..Len(wk)

\* positions on the outgoing stream of the messages worker w sent
SentBy(w) == { k \in 1..Len(outBy) : outBy[k] = w }

\* Phase 1 of a completed before Phase 1 of b
P1Before(a, b) ==
  \E i, j \in 1..Len(p1order) : i < j /\ p1order[i] = a /\ p1order[j] = b

P1Done(w) == \E i \in 1..Len(p1order) : p1order[i] = w

SameProject(a, b) == P1Done(a) /\ P1Done(b) /\ wk[a].proj = wk[b].proj

\* a later Phase 1 of the same project has run
Superseded(a) == \E b \in Workers : P1Before(a, b) /\ SameProject(a, b)

\* the registry slots <<workspace, project>>
Slots ==
  IF IsSome(context.wctx)
  THEN { <<i, j>> : i \in 1..Len(Unwrap(context.wctx)),
                    j \in 1..2 } \cap
       { s \in (1..Len(Unwrap(context.wctx))) \X (1..2) :
           s[2] <= Len(Unwrap(context.wctx)[s[1]].projects) }
  ELSE {}

ProjAt(ctx, slot) == Unwrap(ctx.wctx)[slot[1]].projects[slot[2]]

\* the uri a worker publishes a path of its project under
PublishedUri(w, path) ==
  extended(extended(heap[Unwrap(context.wctx)[wk[w].proj[1]].store].basepath,
                    wk[w].root), path)

-----------------------------------------------------------------------------
(* C1.  No stale overwrite: a worker whose project saw a later Phase 1     *)
(* before its own Phase 3 finds its token invalid under the session lock   *)
(* and sends nothing.                                                      *)

NoStaleOverwrite ==
  [][\A a \in Workers :
       (wk[a].pc = "phase3" /\ Superseded(a) /\ wk'[a].pc # "phase3")
         => (wk'[a].pc = "stale" /\ out' = out)]_vars

NoStaleOverwriteWitness ==
  \E a \in Workers : wk[a].pc = "stale" /\ Superseded(a) /\ SentBy(a) = {}

-----------------------------------------------------------------------------
(* C2.  Monotonic freshness: on a fair scheduler the workers of the edits  *)
(* dispatched so far all come to an end; and when they have, no backend    *)
(* failed, nothing was closed and the edits of a project carried           *)
(* increasing versions per document, then the worker whose Phase 1 ran     *)
(* last has published, its notifications are the last ones of the project  *)
(* on the stream, and each carries the tokens of the text the document has *)
(* after the last edit dispatched.                                         *)

AllEnded == \A w \in Workers : wk[w].pc \in Ended

EditsOf(slot) == { w \in Workers : wk[w].proj = slot }

VersionsIncrease(slot) ==
  \A a, b \in EditsOf(slot) :
    (a < b /\ UriEq(wk[a].patch.uri, wk[b].patch.uri))
      => wk[a].patch.version < wk[b].patch.version

LastPhase1(slot) ==
  CHOOSE l \in EditsOf(slot) : \A b \in EditsOf(slot) : ~P1Before(l, b)

\* the text of a document after all edits dispatched so far
FinalText(slot, u) ==
  LET E == { w \in EditsOf(slot) : UriEq(wk[w].patch.uri, u) } IN
  IF E = {} THEN DiskText
  ELSE wk[CHOOSE w \in E : \A v \in E : v <= w].patch.text

Fresh(slot) ==
  LET l == LastPhase1(slot) IN
  /\ wk[l].pc = "done"
  /\ SentBy(l) # {}
  /\ \A w \in EditsOf(slot) \ {l} : \A k \in SentBy(w), kl \in SentBy(l) : k < kl
  /\ \A k \in SentBy(l) :
       Unwrap(out[k].params).tokens =
         Tokens(FinalText(slot, Unwrap(out[k].params).uri))

FreshPre(slot) ==
  /\ AllEnded
  /\ ~poisoned
  /\ closes = 0
  /\ \A w \in Workers : wk[w].pc # "failed"
  /\ EditsOf(slot) # {}
  /\ VersionsIncrease(slot)

MonotonicFreshness ==
  /\ []<>(~Running \/ AllEnded)
  /\ [](\A slot \in Slots : FreshPre(slot) => Fresh(slot))

\* two edits of one document, the older one's Phase 1 ran last
MonotonicFreshnessWitness ==
  \E slot \in Slots :
    /\ FreshPre(slot) /\ Fresh(slot)
    /\ \E a, b \in EditsOf(slot) :
         a < b /\ P1Before(b, a) /\ UriEq(wk[a].patch.uri, wk[b].patch.uri)

-----------------------------------------------------------------------------
(* C3.  Publish ordering: when the workers of two edits of one project,    *)
(* dispatched in the order i then j, both publish, every notification of   *)
(* i's worker precedes every notification of j's worker.                   *)

PublishInEditOrder ==
  \A i, j \in Workers :
    (i < j /\ SameProject(i, j))
      => \A ki \in SentBy(i), kj \in SentBy(j) : ki < kj

-----------------------------------------------------------------------------
(* C4.  No invalidation is lost: a project's changes set only grows, until *)
(* a Phase 3 that passed the validity check clears it; the set that worker *)
(* clears is the snapshot it computed tokens for, and it sends one         *)
(* notification for every path of it.                                      *)

InvalidationKept ==
  [][IsSome(context.wctx) =>
       \A slot \in Slots :
         LET c == ProjAt(context, slot).changes
             d == ProjAt(context', slot).changes IN
         d # c =>
           \/ c \subseteq d
           \/ /\ d = {}
              /\ \E w \in Workers :
                   /\ wk[w].pc = "phase3" /\ wk'[w].pc = "done"
                   /\ wk[w].proj = slot
                   /\ wk[w].changes = c
                   /\ DOMAIN wk[w].file_tokens = c
                   /\ Len(out') = Len(out) + Cardinality(c)
                   /\ { Unwrap(out'[k].params).uri : k \in (Len(out) + 1)..Len(out') }
                        = { PublishedUri(w, path) : path \in c }]_vars

InvalidationKeptWitness ==
  \E w \in Workers : wk[w].pc = "done" /\ Cardinality(SentBy(w)) = 2

-----------------------------------------------------------------------------
(* C5.  When the analysis backend fails for a worker, the step publishes   *)
(* nothing and leaves the registry, the changes sets among it, as it was;  *)
(* the worker of a later edit snapshots every path still in changes, loops *)
(* over all of the snapshot and has tokens for each path of it when it     *)
(* comes to publish.                                                       *)

BackendFailureKeepsChanges ==
  [][\A w \in Workers :
       /\ (wk[w].pc \in {"load", "files"} /\ wk'[w].pc = "failed")
            => (out' = out /\ context' = context)
       /\ (wk[w].pc = "failed") => (wk'[w].pc = "failed" /\ SentBy(w) = {})
       /\ (wk[w].pc = "phase1" /\ wk'[w].pc = "load")
            => /\ ProjAt(context, wk'[w].proj).changes \subseteq wk'[w].changes
               /\ wk'[w].rel \in wk'[w].changes
       /\ (wk[w].pc = "load" /\ wk'[w].pc = "files")
            => wk'[w].todo = wk[w].changes
       /\ (wk[w].pc = "files" /\ wk'[w].pc = "phase3")
            => DOMAIN wk[w].file_tokens = wk[w].changes]_vars

BackendFailureKeepsChangesWitness ==
  \E a, b \in Workers :
    /\ wk[a].pc = "failed" /\ SentBy(a) = {}
    /\ P1Before(a, b) /\ SameProject(a, b)
    /\ wk[a].rel # wk[b].rel
    /\ wk[b].pc = "done"
    /\ \E k \in SentBy(b) :
         Unwrap(out[k].params).uri = PublishedUri(b, wk[a].rel)

-----------------------------------------------------------------------------
(* C6.  When the didClose handler of a document, for which an orchid       *)
(* didOpen was dispatched before, has locked the session and found the     *)
(* workspace, the overlay holds a record of the document.                  *)

UnpatchFindsRecord ==
  (/\ dpc = "hlocked"
   /\ dmsg.method = Some("textDocument/didClose")
   /\ IsSome(context.wctx)
   /\ IsSome(get_wsp(Unwrap(context.wctx), heap, dmsg.params.uri))
   /\ \E w \in Workers : wk[w].via = "didOpen" /\ wk[w].patch.uri = dmsg.params.uri)
    => IsSome(index_of(
         heap[Unwrap(context.wctx)[Unwrap(get_wsp(Unwrap(context.wctx), heap,
                                                   dmsg.params.uri)).wsp].store],
         dmsg.params.uri))

-----------------------------------------------------------------------------
(* C7.  Overlay lifecycle: when a document that was edited is closed, its  *)
(* didClose has been handled and all workers of its edits have ended, no   *)
(* workspace's PatchStore holds a record of it.                            *)

ClosedLeavesNoEntry ==
  \A u \in EditUris :
    (/\ dpc = "idle"
     /\ ~poisoned
     /\ closes > 0
     /\ \A v \in clientOpen : ~UriEq(u, v)
     /\ \E w \in Workers : UriEq(wk[w].patch.uri, u)
     /\ \A w \in Workers : UriEq(wk[w].patch.uri, u) => wk[w].pc \in Ended)
      => \A slot \in Slots :
           ~IsSome(index_of(heap[Unwrap(context.wctx)[slot[1]].store], u))

-----------------------------------------------------------------------------
(* C8.  Version guard: a Phase 1 that patches a uri the overlay has a      *)
(* record of overwrites text and version iff the new version is at least   *)
(* the stored one, and else leaves both; the version of a record never     *)
(* decreases while the record exists; what a worker publishes for the uri  *)
(* of its edit is computed from the text the overlay retained.             *)

RecordOf(h, ptr, uri) == h[ptr].patches[Unwrap(index_of(h[ptr], uri))]

VersionGuard ==
  [][/\ \A w \in Workers :
          /\ (wk[w].pc = "phase1" /\ wk'[w].pc = "load")
               => LET ptr == Unwrap(context.wctx)[wk'[w].proj[1]].store
                      new == wk[w].patch
                      now == RecordOf(heap', Unwrap(wk'[w].snap), new.uri) IN
                  /\ wk'[w].stored = [text |-> now.text, version |-> now.version]
                  /\ IsSome(index_of(heap[ptr], new.uri)) =>
                       LET old == RecordOf(heap, ptr, new.uri) IN
                       IF new.version >= old.version
                       THEN now.text = new.text /\ now.version = new.version
                       ELSE now.text = old.text /\ now.version = old.version
          /\ (wk[w].pc = "phase3" /\ wk'[w].pc = "done")
               => \E k \in (Len(out) + 1)..Len(out') :
                    /\ UriEq(Unwrap(out'[k].params).uri, wk[w].patch.uri)
                    /\ Unwrap(out'[k].params).tokens = Tokens(wk[w].stored.text)
     /\ (IsSome(context.wctx) /\ (heap' # heap \/ context' # context)) =>
          \A i \in 1..Len(Unwrap(context.wctx)), u \in EditUris :
            LET ptr == Unwrap(context.wctx)[i].store
                qtr == Unwrap(context'.wctx)[i].store IN
            (IsSome(index_of(heap[ptr], u)) /\ IsSome(index_of(heap'[qtr], u)))
              => RecordOf(heap', qtr, u).version >= RecordOf(heap, ptr, u).version]_vars

VersionGuardWitness ==
  \E w \in Workers :
    /\ wk[w].pc = "done"
    /\ wk[w].via = "didChange"
    /\ wk[w].stored.version > wk[w].patch.version
    /\ wk[w].stored.text # wk[w].patch.text
    /\ \E k \in SentBy(w) :
         /\ UriEq(Unwrap(out[k].params).uri, wk[w].patch.uri)
         /\ Unwrap(out[k].params).tokens = Tokens(wk[w].stored.text)

-----------------------------------------------------------------------------
(* C9.  After any sequence of patch and unpatch calls on a store that      *)
(* started empty, no two records of the store have equal uris (FileUri     *)
(* equality: equal decoded segments).                                      *)

OneRecordPerUri ==
  \A p \in DOMAIN heap :
    \A i, j \in 1..Len(heap[p].patches) :
      UriEq(heap[p].patches[i].uri, heap[p].patches[j].uri) => i = j

\* a patch sent under the percent-encoded spelling went into the record that
\* the plain spelling had created, in a store of three records
OneRecordPerUriWitness ==
  /\ dmsg.method = Some("patch")
  /\ dmsg.params.uri = URI_P_ENC
  /\ Len(heap[1].patches) = 3
  /\ \E i \in 1..3 :
       /\ heap[1].patches[i].uri = URI_P
       /\ heap[1].patches[i].text = dmsg.params.text
       /\ heap[1].patches[i].version = dmsg.params.version

-----------------------------------------------------------------------------
(* C10.  Locking discipline: while a registered handler runs, and after a  *)
(* sync handler has returned until recv locks again to send the response,  *)
(* the dispatch thread does not hold the guard recv took.                  *)

LockingDiscipline == dpc \in {"handler", "respond"} => mutex # Dispatch

\* the initialize handler took the session lock itself and has returned
LockingDisciplineWitness ==
  /\ dpc = "respond"
  /\ dmsg.method = Some("initialize")
  /\ IsSome(context.wctx)
  /\ mutex = Free

-----------------------------------------------------------------------------
(* Vocabulary of the kernel properties *)

IsRequest(m) == IsSome(m.method) /\ IsSome(m.id)
IsNotification(m) == IsSome(m.method) /\ ~IsSome(m.id)
IsResponse(m) == ~IsSome(m.method)

\* recv routes the message to a sync handler (line 239)
SyncRequest(m) ==
  /\ IsRequest(m)
  /\ Unwrap(m.method) # "$/cancelRequest"
  /\ Unwrap(m.method) \in sync_hands

\* the dispatch thread sends a message in this step
KernelSends == Len(out') = Len(out) + 1 /\ outBy'[Len(outBy')] = Dispatch

\* this step appends exactly the message msg to the outgoing stream
SendsOnly(msg) == out' = Append(out, msg)

\* the response recv sends for request id with result-or-error res
ResponseFor(id, res) ==
  [jsonrpc |-> "2.0", id |-> Some(id), method |-> None, params |-> None,
   result |-> IF res.ok THEN Some(res.val) ELSE None,
   error |-> IF res.ok THEN None
             ELSE Some([code |-> IF IsSome(res.code) THEN Unwrap(res.code)
                                 ELSE RequestFailed])]

-----------------------------------------------------------------------------
(* C11.  Sync requests.  A message with an id whose method has a sync      *)
(* handler is handed to the handler with its params, before anything is    *)
(* sent; when the handler has returned (and the session mutex is not       *)
(* poisoned) recv sends exactly one message, the response with the id of   *)
(* the request, "jsonrpc": "2.0" and the handler's result or an error      *)
(* object, and only then goes on to the next message.  The dispatch thread *)
(* sends nothing else while it works on the request.                       *)

-----------------------------------------------------------------------------
(* C12.  Notifications.  A message with a method and no id is handed to    *)
(* the registered notification handler exactly once, with its params, and  *)
(* recv itself sends nothing for it: the dispatch thread sends only inside *)
(* a handler, and there is no response step.  A notification without a     *)
(* handler changes nothing, sends nothing and leaves the kernel ready for  *)
(* the next message (mutex free and not poisoned, recv returned).          *)

NotificationHandled ==
  [][ IsNotification(dmsg) =>
        /\ (dpc = "locked" /\ dpc' # "locked")
              => /\ out' = out
                 /\ cbLog' = cbLog
                 /\ IF Unwrap(dmsg.method) \in notif_hands
                    THEN dpc' = "handler" /\ dmsg' = dmsg
                    ELSE /\ dpc' = "idle"
                         /\ mutex' = Free
                         /\ ~poisoned'
                         /\ UNCHANGED <<context, heap, tokFlag, wk, ingress, egress,
                                        nextReq, areqs>>
        /\ (dmsg.method = Some("hello") /\ dpc = "handler" /\ dpc' # "handler")
              => /\ cbLog' = Append(cbLog, [by |-> "hello", arg |-> dmsg.params])
                 /\ dpc' = "idle"
        /\ cbLog' # cbLog => dpc = "handler"
        /\ dpc' # "respond"
        /\ KernelSends => dpc = "hlocked"
    ]_vars

\* two notifications have been handled: the handler of test notif ran once,
\* for the one "hello" among them, and nothing was sent or changed otherwise
NotificationHandledWitness ==
  /\ dpc = "idle"
  /\ received = 2
  /\ cbLog = <<[by |-> "hello", arg |-> [value |-> "World!"]]>>
  /\ out = <<>>
  /\ context = [wctx |-> None, trace |-> None]
  /\ ingress = <<>>

-----------------------------------------------------------------------------
(* C13.  Cancellation of an incoming request.  A $/cancelRequest that      *)
(* carries an id of its own and names a request id with an entry in        *)
(* ingress sets the abort token registered there, and only that; one that  *)
(* names an id without an entry changes nothing.  Either way recv sends    *)
(* nothing and returns.  A $/cancelRequest without an id is a notification *)
(* without a handler: it is ignored.  A request object that is given up    *)
(* is answered with at most one message, and an error RequestCancelled     *)
(* (-32800) with its id is sent only by giving up a request whose token is *)
(* set.                                                                    *)

IsCancel(m) == m.method = Some("$/cancelRequest")

\* the dispatch thread leaves line 218..238 of recv in this step
Dispatched == dpc = "locked" /\ dpc' # "locked"

CancelledResponse(id) == ResponseFor(id, ResErr(Some(RequestCancelled)))

-----------------------------------------------------------------------------
(* C14.  Dropping an unresolved async request.  The claim: whenever a      *)
(* request object ceases to exist a response with its id is sent; when the *)
(* request was not resolved it is an error, RequestCancelled if the token  *)
(* of the request is set and RequestFailed otherwise.  Drop for AsyncReq   *)
(* sends nothing for a request whose token it does not find set.           *)

DropAlwaysResponds ==
  [][ \A r \in areqs \ areqs' :
        /\ Len(out') = Len(out) + 1
        /\ out'[Len(out')].id = Some(r.id)
        /\ IsSome(out'[Len(out')].error)
              => out'[Len(out')].error =
                   Some([code |-> IF tokFlag[r.abort] THEN RequestCancelled
                                  ELSE RequestFailed])
    ]_vars

-----------------------------------------------------------------------------
(* C15.  Unknown optional requests.  A request whose method starts with    *)
(* "$/" and has no sync or async handler ("$/nonsense", and "$/setTrace",  *)
(* which is registered for notifications only) is answered by recv with    *)
(* exactly one message: the error response with the id of the request and  *)
(* code MethodNotFound (-32601).  Nothing else changes, and recv returns   *)
(* with the mutex free and not poisoned, ready for the next message.       *)

UnknownOptionalRequest ==
  [][ (IsRequest(dmsg) /\ Unwrap(dmsg.method) \in {"$/nonsense", "$/setTrace"}
       /\ Dispatched)
        => /\ SendsOnly(ResponseFor(Unwrap(dmsg.id), ResErr(Some(MethodNotFound))))
           /\ out'[Len(out')].error = Some([code |-> -32601])
           /\ outBy' = Append(outBy, Dispatch)
           /\ dpc' = "idle"
           /\ mutex' = Free
           /\ ~poisoned'
           /\ UNCHANGED <<context, heap, tokFlag, wk, ingress, egress, nextReq,
                          areqs, cbLog>>
    ]_vars

\* "$/nonsense" with id 1 was answered with MethodNotFound, and the request
\* "hello" that came after it was answered too
UnknownOptionalRequestWitness ==
  /\ dpc = "idle"
  /\ Len(out) = 2
  /\ out[1] = [jsonrpc |-> "2.0", id |-> Some(1), method |-> None, params |-> None,
               result |-> None, error |-> Some([code |-> MethodNotFound])]
  /\ out[2].result = Some("World!")

-----------------------------------------------------------------------------
(* C16.  Unknown requests never end the server.  The claim: every request  *)
(* whose method has no handler, whether or not the name starts with "$/",  *)
(* is answered with an error response that carries its id, and recv        *)
(* returns so that the next message can be processed.  For a name without  *)
(* the prefix recv panics instead (line 260, with the guard held).         *)

UnknownRequest(m) ==
  /\ IsRequest(m)
  /\ Unwrap(m.method) \notin sync_hands \cup async_hands \cup {"$/cancelRequest"}

UnknownRequestAnswered ==
  [][ (UnknownRequest(dmsg) /\ Dispatched)
        => /\ Len(out') = Len(out) + 1
           /\ out'[Len(out')].id = dmsg.id
           /\ IsSome(out'[Len(out')].error)
           /\ dpc' = "idle"
           /\ ~poisoned'
    ]_vars

-----------------------------------------------------------------------------
(* C17.  Outgoing requests and their callbacks.  send_request stores the   *)
(* callback in egress under an id that no earlier request had (NEXT_REQ,   *)
(* then incremented) and sends the request with that id.  A response whose *)
(* id has an entry removes the entry and then invokes the callback with    *)
(* the result or the error of the response; a response whose id has no     *)
(* entry makes recv panic and invokes nothing.  Entries leave egress in no *)
(* other way, so over any sequence of messages the callback of a request   *)
(* is invoked at most once.                                                *)

CallbackCalls(id) ==
  { i \in 1..Len(cbLog) : cbLog[i].by = "callback" /\ cbLog[i].arg.id = id }

CallbackOnce ==
  /\ [](/\ \A id \in DOMAIN egress : id < nextReq /\ CallbackCalls(id) = {}
        /\ \A id \in 0..nextReq : Cardinality(CallbackCalls(id)) <= 1
        /\ \A i \in 1..Len(cbLog) : cbLog[i].by = "callback" => cbLog[i].arg.id < nextReq)
  /\ [][ /\ (DOMAIN egress' \ DOMAIN egress # {})
               => /\ DOMAIN egress' = DOMAIN egress \cup {nextReq}
                  /\ nextReq' = nextReq + 1
                  /\ SendsOnly([jsonrpc |-> "2.0", id |-> Some(nextReq),
                                method |-> Some("client/registerCapability"),
                                params |-> Some([registrations |->
                                                   "file-watcher-registration-id"]),
                                result |-> None, error |-> None])
         /\ (DOMAIN egress \ DOMAIN egress' # {}) => (IsResponse(dmsg) /\ Dispatched)
         /\ (IsResponse(dmsg) /\ Dispatched)
               => /\ cbLog' = cbLog
                  /\ IF Unwrap(dmsg.id) \in DOMAIN egress
                     THEN /\ dpc' = "callback"
                          /\ DOMAIN egress' = DOMAIN egress \ {Unwrap(dmsg.id)}
                          /\ \A i \in DOMAIN egress' : egress'[i] = egress[i]
                     ELSE dpc' = "panicked" /\ egress' = egress
         /\ (dpc = "callback" /\ dpc' # "callback")
               => cbLog' = Append(cbLog, [by |-> "callback",
                                          arg |-> [id |-> Unwrap(dmsg.id),
                                                   ok |-> dmsg.params.ok]])
         /\ (Len(cbLog') > Len(cbLog) /\ cbLog'[Len(cbLog')].by = "callback")
               => dpc = "callback"
       ]_vars

\* the request of the initialized handler was answered: its callback ran
\* once, with the result, and its entry is gone
CallbackOnceWitness ==
  /\ dpc = "idle"
  /\ nextReq = 1
  /\ egress = <<>>
  /\ cbLog = <<[by |-> "callback", arg |-> [id |-> 0, ok |-> TRUE]]>>

-----------------------------------------------------------------------------
(* C18.  The context map is write-once per type.  A set for a type whose   *)
(* slot is empty stores the value and the server goes on; a set for a type *)
(* whose slot is occupied panics on the dispatch thread with the session   *)
(* mutex held, which ends the server and poisons the mutex, so the value   *)
(* CtxMap::set put in the slot before its assertion is never read.  While  *)
(* the server runs, an occupied slot keeps the value it was set to: a      *)
(* second initialize does not replace the WorkspaceCtx of the first.       *)

\* the type whose slot the handler of the message sets
SlotOf(m) == IF m.method = Some("initialize") THEN "wctx" ELSE "trace"

\* a handler is at its call of Session::set and the step executes it
SetStep ==
  /\ dpc = "hlocked"
  /\ dpc' # "hlocked"
  /\ dmsg.method \in {Some("initialize"), Some("$/setTrace")}

\* what identifies a WorkspaceCtx: its folders and their projects
WspIdentity(w) ==
  [i \in DOMAIN w |->
     [name |-> w[i].name,
      projects |-> [j \in DOMAIN w[i].projects |-> w[i].projects[j].path]]]

ContextWriteOnce ==
  [][ /\ SetStep =>
           IF IsSome(context[SlotOf(dmsg)])
           THEN dpc' = "panicked" /\ poisoned' /\ out' = out
           ELSE /\ IsSome(context'[SlotOf(dmsg)])
                /\ dpc' # "panicked"
                /\ ~poisoned'
                /\ dmsg.method = Some("$/setTrace")
                      => context'.trace = Some(dmsg.params.value)
                /\ dmsg.method = Some("initialize")
                      => /\ Len(Unwrap(context'.wctx)) = Len(dmsg.params.workspaceFolders)
                         /\ \A i \in 1..Len(dmsg.params.workspaceFolders) :
                               Unwrap(context'.wctx)[i].name =
                                 dmsg.params.workspaceFolders[i].name
      /\ (dpc' # "panicked" /\ IsSome(context.trace)) => context'.trace = context.trace
      /\ (dpc' # "panicked" /\ IsSome(context.wctx))
            => /\ IsSome(context'.wctx)
               /\ WspIdentity(Unwrap(context'.wctx)) = WspIdentity(Unwrap(context.wctx))
    ]_vars

\* a second initialize, for another list of folders, was rejected after the
\* first one had been answered
ContextWriteOnceWitness ==
  /\ dpc = "panicked"
  /\ poisoned
  /\ dmsg.method = Some("initialize")
  /\ dmsg.params.workspaceFolders # <<>>
  /\ Len(out) = 1
  /\ out[1].result = Some("capabilities")

-----------------------------------------------------------------------------
(* C19.  $/setTrace.  The claim: every $/setTrace notification whose value *)
(* is off, messages or verbose makes that value the trace level stored in  *)
(* the context, and the server keeps running, however many of them it has  *)
(* received.  The handler stores the level with Session::set, which is     *)
(* write-once: the second notification panics.                             *)

TraceLevelFollows ==
  [][ (SetStep /\ dmsg.method = Some("$/setTrace") /\ dmsg.params.value \in TraceValue)
        => /\ context'.trace = Some(dmsg.params.value)
           /\ dpc' = "idle"
           /\ ~poisoned'
    ]_vars

-----------------------------------------------------------------------------
(* C20.  Longest-prefix workspace lookup.  For every list of workspaces    *)
(* and every uri, get_wsp returns a workspace whose basepath is a          *)
(* path-prefix of the uri (the uri is the basepath, or continues it with   *)
(* "/"), and no workspace has a longer basepath that is a path-prefix too; *)
(* it returns None exactly when no basepath is a path-prefix of the uri.   *)

\* base is a path-prefix of uri
PathPrefix(base, uri) ==
  \/ uri = base
  \/ /\ Len(uri) > Len(base)
     /\ SubSeq(uri, 1, Len(base)) = base
     /\ uri[Len(base) + 1] = "/"

\* the basepath of workspace i of the registry
BaseOf(i) == heap[Unwrap(context.wctx)[i].store].basepath

LongestPrefixWorkspace ==
  dmsg.method = Some("get_wsp") =>
    LET uri == dmsg.params.uri
        n == Len(Unwrap(context.wctx))
        found == dres.val IN
    IF \E k \in 1..n : PathPrefix(BaseOf(k), uri)
    THEN /\ IsSome(found)
         /\ Unwrap(found).wsp \in 1..n
         /\ PathPrefix(BaseOf(Unwrap(found).wsp), uri)
         /\ \A k \in 1..n :
               PathPrefix(BaseOf(k), uri)
                 => Len(BaseOf(k)) <= Len(BaseOf(Unwrap(found).wsp))
    ELSE found = None

\* workspaces a and a/b: a/b/x resolves to a/b, the second one
LongestPrefixWorkspaceWitness ==
  /\ dmsg.method = Some("get_wsp")
  /\ dmsg.params.uri = <<"a", "/", "b", "/", "x">>
  /\ Len(Unwrap(context.wctx)) = 2
  /\ BaseOf(1) = <<"a">>
  /\ BaseOf(2) = <<"a", "/", "b">>
  /\ dres.val = Some([rel |-> <<<<"x">>>>, wsp |-> 2])

-----------------------------------------------------------------------------
(* One workspace with any list of projects: get_proj_mut over it *)

\* projects per workspace
MaxProj == 2

\* project paths below the workspace w: the root, a, a/b and c
LookupProjPaths == { <<>>, <<<<"a">>>>, <<<<"a">>, <<"b">>>>, <<<<"c">>>> }

\* the uris looked up: w, w/a, w/a/b, w/a/b/x, w/c/x, w/ab and v
LookupProjUris ==
  { URI_W, <<"w", "/", "a">>, <<"w", "/", "a", "/", "b">>,
    <<"w", "/", "a", "/", "b", "/", "x">>, <<"w", "/", "c", "/", "x">>,
    <<"w", "/", "a", "b">>, <<"v">> }

\* the session with one workspace w whose projects are ps, in this order
InitProj ==
  \E ps \in UNION { [1..n -> LookupProjPaths] : n \in 0..MaxProj } :
    /\ context = [wctx |-> Some(<<[name |-> "f", store |-> 1,
                                   projects |-> [j \in 1..Len(ps) |->
                                                   CtxProj_new(ps[j], j)]]>>),
                  trace |-> None]
    /\ heap = <<PatchStore_new(URI_W)>>
    /\ tokFlag = [j \in 1..Len(ps) |-> FALSE]
    /\ mutex = Free
    /\ poisoned = FALSE
    /\ dpc = "idle"
    /\ dmsg = NoMsg
    /\ dres = NoRes
    /\ wk = <<>>
    /\ ingress = <<>>
    /\ egress = <<>>
    /\ nextReq = 0
    /\ areqs = {}
    /\ cbLog = <<>>
    /\ out = <<>>
    /\ outBy = <<>>
    /\ p1order = <<>>
    /\ closes = 0
    /\ clientOpen = {}
    /\ received = 0

\* fsctx.get_proj_mut(&uri); dmsg records the call and dres what it returned
ProjLookup ==
  /\ \E u \in LookupProjUris :
       /\ dmsg' = Notif("get_proj_mut", [uri |-> u])
       /\ dres' = ResOk(get_proj_mut(Unwrap(context.wctx), heap, u))
  /\ UNCHANGED <<context, heap, tokFlag, mutex, poisoned, dpc, wk, out, outBy>>
  /\ UNCHANGED jrpcVars
  /\ UNCHANGED histVars

NextProj == ProjLookup

SpecProj == InitProj /\ [][NextProj]_vars

(* C21.  Project lookup.  Within the workspace selected for a uri,         *)
(* get_proj_mut returns the first project, in list order, whose path is a  *)
(* prefix of the workspace-relative path, and None exactly when there is   *)
(* none (or no workspace is selected); whenever no project path of the     *)
(* list is a proper prefix of another one, the project returned has the    *)
(* longest path among the projects whose path is a prefix.                 *)

\* the path of project j of the only workspace
ProjPathOf(j) == Unwrap(context.wctx)[1].projects[j].path

\* segments a is a prefix of segments b
SegPrefix(a, b) == Len(a) <= Len(b) /\ SubSeq(b, 1, Len(a)) = a

\* no project path of the list is a proper prefix of another one
PrefixFree ==
  \A j, k \in 1..Len(Unwrap(context.wctx)[1].projects) :
     SegPrefix(ProjPathOf(j), ProjPathOf(k)) => ProjPathOf(j) = ProjPathOf(k)

\* the workspace-relative path of the uri looked up, if w is a path-prefix
RelOf(uri) ==
  IF uri = URI_W THEN Some(<<>>)
  ELSE IF PathPrefix(URI_W, uri)
       THEN Some(SplitSlash(SubSeq(uri, Len(URI_W) + 2, Len(uri))))
       ELSE None

-----------------------------------------------------------------------------
(* find_all_projects, one loop iteration per step, over any directory tree *)

\* files per tree, and segments per file path
MaxFiles == 2
MaxDepth == 3

\* find_all_projects(VPath::new([]), vfs) is entered: dmsg holds the vfs,
\* dres the queue and the results.  The trees are sets of at most MaxFiles
\* file paths over the names d and project_info in which no file lies below
\* another file; the directories are their ancestors
InitFind ==
  \E files \in
       { F \in UNION { { { fs[i] : i \in 1..n } :
                          fs \in [1..n -> UNION { [1..k -> {Sd, Sinfo}] :
                                                   k \in 1..MaxDepth }] } :
                        n \in 0..MaxFiles } :
           \A f, g \in F : (Len(f) <= Len(g) /\ SubSeq(g, 1, Len(f)) = f) => f = g } :
    /\ dmsg = Notif("find_all_projects", [vfs |-> files])
    /\ dres = ResOk([queue |-> << <<>> >>, results |-> <<>>])
    /\ context = [wctx |-> None, trace |-> None]
    /\ heap = <<>>
    /\ tokFlag = <<>>
    /\ mutex = Free
    /\ poisoned = FALSE
    /\ dpc = "idle"
    /\ wk = <<>>
    /\ ingress = <<>>
    /\ egress = <<>>
    /\ nextReq = 0
    /\ areqs = {}
    /\ cbLog = <<>>
    /\ out = <<>>
    /\ outBy = <<>>
    /\ p1order = <<>>
    /\ closes = 0
    /\ clientOpen = {}
    /\ received = 0

\* while let Some(p) = queue.pop_front() { ... }: the collection is read in
\* any order
FindStep ==
  /\ dres.val.queue # <<>>
  /\ \E cs \in Orders(ChildrenOf(dmsg.params.vfs, Head(dres.val.queue))) :
       dres' = ResOk(find_step(dmsg.params.vfs, dres.val.queue,
                               dres.val.results, cs))
  /\ UNCHANGED <<context, heap, tokFlag, mutex, poisoned, dpc, dmsg, wk, out, outBy>>
  /\ UNCHANGED <<ingress, egress, nextReq, areqs, cbLog>>
  /\ UNCHANGED histVars

\* the loop runs on its own thread of control: it keeps iterating
SpecFind == InitFind /\ [][FindStep]_vars /\ WF_vars(FindStep)

(* C22.  Project discovery.  Over every directory tree find_all_projects   *)
(* terminates; it never puts a path below a project directory on its       *)
(* queue; and when it returns, its results are, without repetition,        *)
(* exactly the files that have no project directory above them and the     *)
(* directories with a direct child named project_info that have no project *)
(* directory above them, so that no result is a proper prefix of another.  *)

\* d is a directory of the tree with a direct child named project_info
IsProjectDir(files, d) ==
  \E f \in files : Len(f) > Len(d) /\ SubSeq(f, 1, Len(d)) = d /\ f[Len(d) + 1] = Sinfo

\* no proper ancestor of p is a project directory
ReachedOutside(files, p) ==
  \A k \in 0..(Len(p) - 1) : ~IsProjectDir(files, SubSeq(p, 1, k))

\* what discovery has to return
ExpectedProjects(files) ==
  { f \in files : ReachedOutside(files, f) }
    \cup { d \in UNION { { SubSeq(f, 1, k) : k \in 0..Len(f) } : f \in files } :
            IsProjectDir(files, d) /\ ReachedOutside(files, d) }

FindReturned == dmsg.method = Some("find_all_projects") /\ dres.val.queue = <<>>

ProjectDiscovery ==
  /\ [](dmsg.method = Some("find_all_projects") =>
          LET files == dmsg.params.vfs
              queue == dres.val.queue
              results == dres.val.results IN
          /\ \A i \in 1..Len(queue) : ReachedOutside(files, queue[i])
          /\ \A i, j \in 1..Len(results) : results[i] = results[j] => i = j
          /\ queue = <<>> =>
                /\ { results[i] : i \in 1..Len(results) } = ExpectedProjects(files)
                /\ \A i, j \in 1..Len(results) :
                      (/\ Len(results[i]) <= Len(results[j])
                       /\ SubSeq(results[j], 1, Len(results[i])) = results[i])
                        => i = j)
  /\ <>FindReturned

\* d/project_info and d/d/d: d is the only project, and nothing below it
\* is returned
ProjectDiscoveryWitness ==
  /\ FindReturned
  /\ dmsg.params.vfs = { <<Sd, Sinfo>>, <<Sd, Sd, Sd>> }
  /\ dres.val.results = << <<Sd>> >>

-----------------------------------------------------------------------------
(* SemToken::split (protocol/tokens.rs) over any text and span *)

\* bytes per source text
MaxText == 4

NL == "\n"

\* SemToken::split of the token start..end of text: the spans returned
split(text, start, end) ==
  LET \* self.text()[s..end].find('\n')
      find(s) == IF \E i \in s..(end - 1) : text[i + 1] = NL
                 THEN Some((CHOOSE i \in s..(end - 1) :
                              /\ text[i + 1] = NL
                              /\ \A j \in s..(i - 1) : text[j + 1] # NL) - s)
                 ELSE None
      rec[k \in 0..(end - start)] ==
        LET s == end - k IN
        IF ~IsSome(find(s)) THEN << [start |-> s, end |-> end] >>
        ELSE IF Unwrap(find(s)) = 0 THEN << [start |-> s + 1, end |-> end] >>
        ELSE << [start |-> s, end |-> s + Unwrap(find(s))] >>
               \o rec[end - (s + Unwrap(find(s)) + 1)] IN
  rec[end - start]

\* a token start..end of at least one byte over text (SemToken::new:
\* end <= text.len())
InitSplit ==
  \E text \in UNION { [1..n -> {"a", NL}] : n \in 0..MaxText } :
   \E start \in 0..Len(text) :
    \E end \in (start + 1)..Len(text) :
    /\ dmsg = Notif("split", [text |-> text, start |-> start, end |-> end])
    /\ dres = NoRes
    /\ context = [wctx |-> None, trace |-> None]
    /\ heap = <<>>
    /\ tokFlag = <<>>
    /\ mutex = Free
    /\ poisoned = FALSE
    /\ dpc = "idle"
    /\ wk = <<>>
    /\ ingress = <<>>
    /\ egress = <<>>
    /\ nextReq = 0
    /\ areqs = {}
    /\ cbLog = <<>>
    /\ out = <<>>
    /\ outBy = <<>>
    /\ p1order = <<>>
    /\ closes = 0
    /\ clientOpen = {}
    /\ received = 0

\* tok.split(); dres holds the spans returned
SplitToken ==
  /\ dmsg.method = Some("split")
  /\ dres = NoRes
  /\ dres' = ResOk(split(dmsg.params.text, dmsg.params.start, dmsg.params.end))
  /\ UNCHANGED <<context, heap, tokFlag, mutex, poisoned, dpc, dmsg, wk, out, outBy>>
  /\ UNCHANGED <<ingress, egress, nextReq, areqs, cbLog>>
  /\ UNCHANGED histVars

SpecSplit == InitSplit /\ [][SplitToken]_vars

(* C23.  Token splitting.  For every text and every token span in it,      *)
(* split returns, in order, exactly the non-empty maximal newline-free     *)
(* sub-spans of the span: no span returned contains a newline and none is  *)
(* empty.                                                                  *)

\* the non-empty maximal newline-free sub-spans of start..end
LineSpans(text, start, end) ==
  { sp \in [start : start..end, end : start..end] :
      /\ sp.start < sp.end
      /\ \A i \in sp.start..(sp.end - 1) : text[i + 1] # NL
      /\ sp.start = start \/ text[sp.start] = NL
      /\ sp.end = end \/ text[sp.end + 1] = NL }

TokenSplitting ==
  (dmsg.method = Some("split") /\ dres # NoRes) =>
    LET text == dmsg.params.text
        spans == dres.val IN
    /\ { spans[i] : i \in 1..Len(spans) }
         = LineSpans(text, dmsg.params.start, dmsg.params.end)
    /\ \A i \in 1..(Len(spans) - 1) : spans[i].end <= spans[i + 1].start

-----------------------------------------------------------------------------
(* The DocPos codec (protocol/docpos.rs) over any text and points *)

\* chars per text, and points per call
MaxDoc == 3
MaxPoints == 2

\* char::len_utf8 and char::len_utf16 of the model's chars: a, o-umlaut
\* (written o), the astral G clef (written G) and the newline
Utf(c) ==
  IF c = "o" THEN [u8 |-> 2, u16 |-> 1]
  ELSE IF c = "G" THEN [u8 |-> 4, u16 |-> 2]
  ELSE [u8 |-> 1, u16 |-> 1]

\* text.split('\n'): the lines, each a sequence of chars
SplitNL(text) ==
  With(text, LAMBDA s :
    LET P == { i \in 1..Len(s) : s[i] = NL }
        pos(k) == IF k = 0 THEN 0
                  ELSE IF k > Cardinality(P) THEN Len(s) + 1
                  ELSE CHOOSE i \in P : Cardinality({ j \in P : j < i }) = k - 1 IN
    [k \in 1..(Cardinality(P) + 1) |-> SubSeq(s, pos(k - 1) + 1, pos(k) - 1)])

\* sorted_unstable_by_key(|p| p.0): every arrangement of the input in which
\* the keys do not decrease (le holds the pairs of keys that are in order)
sorted_unstable(input, le) ==
  { [i \in 1..Len(input) |-> input[o[i]]] :
      o \in { q \in Orders(1..Len(input)) :
                \A i \in 1..(Len(input) - 1) :
                   <<input[q[i]].pos, input[q[i + 1]].pos>> \in le } }

\* the index of the last of the points that repeat the position of sorted[k]
\* right after it (the 'inner loops)
LastRepeat(sorted, k) ==
  CHOOSE m \in k..Len(sorted) :
    /\ \A j \in k..m : sorted[j].pos = sorted[k].pos
    /\ m = Len(sorted) \/ sorted[m + 1].pos # sorted[k].pos

\* docpos2bpos after the sort: Some(output), or None for a panic
docpos2bpos(sorted, text) ==
  LET lines == SplitNL(text)
      u8(cs) == LET a[i \in 0..Len(cs)] == IF i = 0 THEN 0 ELSE a[i - 1] + Utf(cs[i]).u8
                IN a[Len(cs)]
      u16(cs) == LET a[i \in 0..Len(cs)] == IF i = 0 THEN 0 ELSE a[i - 1] + Utf(cs[i]).u16
                 IN a[Len(cs)]
      \* prev_lines_bytes before line li (1-based)
      prev[li \in 1..Len(lines)] ==
        IF li = 1 THEN 0 ELSE prev[li - 1] + u8(lines[li - 1]) + 1
      RECURSIVE step(_, _, _, _)
      \* at char ci of line li, with cur = sorted[k]
      step(li, ci, k, output) ==
        IF li > Len(lines) THEN Some(output)
        ELSE IF ci > Len(lines[li]) THEN step(li + 1, 1, k, output)
        ELSE LET cur == sorted[k]
                 u16cp == u16(SubSeq(lines[li], 1, ci - 1))
                 bpos == prev[li] + u8(SubSeq(lines[li], 1, ci - 1))
                 m == LastRepeat(sorted, k) IN
             IF cur.pos.line # li - 1 THEN step(li, ci + 1, k, output)
             ELSE IF u16cp > cur.pos.char THEN None
             ELSE IF u16cp # cur.pos.char THEN step(li, ci + 1, k, output)
             ELSE With(output \o [j \in 1..(m - k + 1) |->
                                     [pos |-> bpos, tag |-> sorted[k + j - 1].tag]],
                       LAMBDA out2 :
                         IF m = Len(sorted) THEN Some(out2)
                         ELSE step(li, ci + 1, m + 1, out2)) IN
  IF sorted = <<>> THEN None ELSE step(1, 1, 1, <<>>)

\* bpos2docpos after the sort: Some(output), or None for a panic
bpos2docpos(sorted, text) ==
  LET lines == SplitNL(text)
      u8(cs) == LET a[i \in 0..Len(cs)] == IF i = 0 THEN 0 ELSE a[i - 1] + Utf(cs[i]).u8
                IN a[Len(cs)]
      u16(cs) == LET a[i \in 0..Len(cs)] == IF i = 0 THEN 0 ELSE a[i - 1] + Utf(cs[i]).u16
                 IN a[Len(cs)]
      bytes[li \in 1..Len(lines)] ==
        IF li = 1 THEN 0 ELSE bytes[li - 1] + u8(lines[li - 1]) + 1
      RECURSIVE step(_, _, _)
      \* at line li, with cur = sorted[k]
      step(li, k, output) ==
        IF li > Len(lines) THEN Some(output)
        ELSE LET cur == sorted[k]
                 line == lines[li]
                 m == LastRepeat(sorted, k) IN
             IF ~(cur.pos < bytes[li] + u8(line) + 1) THEN step(li + 1, k, output)
             ELSE IF bytes[li] > cur.pos THEN None
             \* line[..(cur.0 - bytes)] panics off a char boundary
             ELSE IF ~\E n \in 0..Len(line) : u8(SubSeq(line, 1, n)) = cur.pos - bytes[li]
             THEN None
             ELSE LET n == CHOOSE n \in 0..Len(line) :
                             u8(SubSeq(line, 1, n)) = cur.pos - bytes[li]
                      pos == [line |-> li - 1, char |-> u16(SubSeq(line, 1, n))] IN
                  With(output \o [j \in 1..(m - k + 1) |->
                                     [pos |-> pos, tag |-> sorted[k + j - 1].tag]],
                       LAMBDA out2 :
                         IF m = Len(sorted) THEN Some(out2)
                         ELSE step(li, m + 1, out2)) IN
  IF sorted = <<>> THEN None ELSE step(1, 1, <<>>)

\* a text without '\r' and a non-empty collection of points within its
\* bounds (a line of the text and a code unit offset at a char boundary of
\* it, the end of the line included); the payload of a point is its index
InitDoc ==
  \E text \in UNION { [1..n -> {"a", "o", "G", NL}] : n \in 0..MaxDoc } :
   \E ps \in UNION { [1..n ->
                        LET lines == SplitNL(text) IN
                        UNION { { [line |-> li - 1,
                                   char |-> LET a[i \in 0..k] ==
                                                  IF i = 0 THEN 0
                                                  ELSE a[i - 1] + Utf(lines[li][i]).u16
                                            IN a[k]] : k \in 0..Len(lines[li]) } :
                                li \in 1..Len(lines) }] : n \in 1..MaxPoints } :
    /\ dmsg = Notif("docpos2bpos",
                    [text |-> text,
                     points |-> [i \in 1..Len(ps) |-> [pos |-> ps[i], tag |-> i]]])
    /\ dres = NoRes
    /\ context = [wctx |-> None, trace |-> None]
    /\ heap = <<>>
    /\ tokFlag = <<>>
    /\ mutex = Free
    /\ poisoned = FALSE
    /\ dpc = "idle"
    /\ wk = <<>>
    /\ ingress = <<>>
    /\ egress = <<>>
    /\ nextReq = 0
    /\ areqs = {}
    /\ cbLog = <<>>
    /\ out = <<>>
    /\ outBy = <<>>
    /\ p1order = <<>>
    /\ closes = 0
    /\ clientOpen = {}
    /\ received = 0

\* bpos2docpos(docpos2bpos(points, text), text); DocPos is ordered by line,
\* then char (derive(Ord)); dres holds the two results
DocRoundTrip ==
  /\ dmsg.method = Some("docpos2bpos")
  /\ dres = NoRes
  /\ LET keys(input) == { input[i].pos : i \in 1..Len(input) }
         DocPosLe(input) ==
           { pq \in keys(input) \X keys(input) :
               \/ pq[1].line < pq[2].line
               \/ (pq[1].line = pq[2].line /\ pq[1].char <= pq[2].char) }
         UsizeLe(input) == { pq \in keys(input) \X keys(input) : pq[1] <= pq[2] } IN
     \E s1 \in sorted_unstable(dmsg.params.points, DocPosLe(dmsg.params.points)) :
       LET b == docpos2bpos(s1, dmsg.params.text) IN
       \E s2 \in IF IsSome(b) THEN sorted_unstable(Unwrap(b), UsizeLe(Unwrap(b)))
                  ELSE { <<>> } :
         dres' = ResOk(IF IsSome(b)
                       THEN <<b, bpos2docpos(s2, dmsg.params.text)>>
                       ELSE <<None, None>>)
  /\ UNCHANGED <<context, heap, tokFlag, mutex, poisoned, dpc, dmsg, wk, out, outBy>>
  /\ UNCHANGED <<ingress, egress, nextReq, areqs, cbLog>>
  /\ UNCHANGED histVars

SpecDoc == InitDoc /\ [][DocRoundTrip]_vars

(* C24.  DocPos round trip.  For every text without '\r' and every         *)
(* non-empty collection of in-bounds points, docpos2bpos returns one byte  *)
(* offset per point and bpos2docpos of that result returns the points,     *)
(* each as often as it was given, with its payload.                        *)

DocPosRoundTrip ==
  (dmsg.method = Some("docpos2bpos") /\ dres # NoRes) =>
    LET P == dmsg.params.points
        b == dres.val[1]
        d == dres.val[2] IN
    /\ IsSome(b)
    /\ Len(Unwrap(b)) = Len(P)
    /\ IsSome(d)
    /\ Len(Unwrap(d)) = Len(P)
    /\ \A i \in 1..Len(P) :
          Cardinality({ j \in 1..Len(P) : Unwrap(d)[j] = P[i] })
            = Cardinality({ j \in 1..Len(P) : P[j] = P[i] })

-----------------------------------------------------------------------------
(* FileUri::to_vpath and extended (protocol/document.rs) over pairs of uris *)

\* self and prefix: the empty uri, w, w/, w/p, w/%70, w/px, w/p/x and
\* w/%70/x
InitUri ==
  \E u, prefix \in { <<>>, URI_W, <<"w", "/">>, URI_P, URI_P_ENC, <<"w", "/", "p", "x">>,
                     <<"w", "/", "p", "/", "x">>, <<"w", "/", "%", "7", "0", "/", "x">> } :
    /\ dmsg = Notif("to_vpath", [self |-> u, prefix |-> prefix])
    /\ dres = NoRes
    /\ context = [wctx |-> None, trace |-> None]
    /\ heap = <<>>
    /\ tokFlag = <<>>
    /\ mutex = Free
    /\ poisoned = FALSE
    /\ dpc = "idle"
    /\ wk = <<>>
    /\ ingress = <<>>
    /\ egress = <<>>
    /\ nextReq = 0
    /\ areqs = {}
    /\ cbLog = <<>>
    /\ out = <<>>
    /\ outBy = <<>>
    /\ p1order = <<>>
    /\ closes = 0
    /\ clientOpen = {}
    /\ received = 0

\* self.to_vpath(&prefix), and prefix.extended(..) of the path it returned;
\* dres holds the two results
UriToVpath ==
  /\ dmsg.method = Some("to_vpath")
  /\ dres = NoRes
  /\ dres' = ResOk(With(to_vpath(dmsg.params.self, dmsg.params.prefix), LAMBDA r :
                     <<r, IF IsSome(r)
                          THEN Some(extended(dmsg.params.prefix, Unwrap(r)))
                          ELSE None>>))
  /\ UNCHANGED <<context, heap, tokFlag, mutex, poisoned, dpc, dmsg, wk, out, outBy>>
  /\ UNCHANGED <<ingress, egress, nextReq, areqs, cbLog>>
  /\ UNCHANGED histVars

SpecUri == InitUri /\ [][UriToVpath]_vars

(* C25.  to_vpath.  u.to_vpath(prefix) returns Some(empty path) exactly    *)
(* when u and prefix are the same string, Some(segments) when prefix is    *)
(* followed by "/" in u, where the segments hold no "/" and                *)
(* prefix.extended(segments) is u again, and None otherwise: when prefix   *)
(* is no byte-prefix of u (also when the two are equal as decoded          *)
(* segments, but differently encoded) or is followed by another byte.      *)

ToVpathBytePrefix ==
  (dmsg.method = Some("to_vpath") /\ dres # NoRes) =>
    LET u == dmsg.params.self
        prefix == dmsg.params.prefix
        r == dres.val[1]
        ext == dres.val[2] IN
    /\ u = prefix <=> r = Some(<<>>)
    /\ PathPrefix(prefix, u) <=> IsSome(r)
    /\ IsSome(r) =>
          /\ \A i \in 1..Len(Unwrap(r)) :
                \A j \in 1..Len(Unwrap(r)[i]) : Unwrap(r)[i][j] # "/"
          /\ ext = Some(u)
          /\ u # prefix => Len(Unwrap(r)) >= 1

\* w/p/x under w is p, x, and w extended by it is w/p/x again
ToVpathBytePrefixWitness ==
  /\ dmsg.method = Some("to_vpath")
  /\ dres # NoRes
  /\ dmsg.params.self = <<"w", "/", "p", "/", "x">>
  /\ dmsg.params.prefix = URI_W
  /\ dres.val = << Some(<< <<"p">>, <<"x">> >>), Some(dmsg.params.self) >>

\* the claim as stated: uris equal as decoded segments give the empty path
ToVpathOfEqualUris ==
  (dmsg.method = Some("to_vpath") /\ dres # NoRes
     /\ UriEq(dmsg.params.self, dmsg.params.prefix))
    => dres.val[1] = Some(<<>>)

-----------------------------------------------------------------------------
(* C26.  One current abort token per project.  Whenever the session lock   *)
(* is free, the current tokens of the projects are pairwise different and  *)
(* none of them is aborted, while every other token ever allocated, and so *)
(* every token installed for a project before its current one, is aborted; *)
(* of the workers of one project at most one holds a token that is_valid   *)
(* accepts, and a worker passes the Phase 3 check only with the current    *)
(* token of its project; a token that is aborted stays aborted.            *)

\* the current token of the project in a registry slot
CurrentToken(slot) == ProjAt(context, slot).abort

OneCurrentToken ==
  /\ [](mutex = Free =>
          /\ \A s \in Slots :
                /\ CurrentToken(s) \in DOMAIN tokFlag
                /\ ~tokFlag[CurrentToken(s)]
                /\ \A t \in Slots : CurrentToken(s) = CurrentToken(t) => s = t
          /\ \A tok \in DOMAIN tokFlag :
                (\A s \in Slots : CurrentToken(s) # tok) => tokFlag[tok]
          /\ \A a \in Workers :
                P1Done(a) =>
                  /\ wk[a].abort \in DOMAIN tokFlag
                  /\ \A s \in Slots : CurrentToken(s) = wk[a].abort => s = wk[a].proj
                  /\ Superseded(a) => tokFlag[wk[a].abort]
                  /\ \A b \in Workers :
                        (SameProject(a, b) /\ a # b)
                          => ~(is_valid(tokFlag, wk[a].abort)
                                 /\ is_valid(tokFlag, wk[b].abort)))
  /\ [][/\ \A tok \in DOMAIN tokFlag : tokFlag[tok] => tokFlag'[tok]
        /\ \A a \in Workers :
              (wk[a].pc = "phase3" /\ wk'[a].pc \in {"done", "orphan"})
                => /\ ~tokFlag[wk[a].abort]
                   /\ wk[a].pc = "phase3" /\ wk'[a].pc = "done"
                         => CurrentToken(wk[a].proj) = wk[a].abort]_vars

\* two edits of one project went through Phase 1: the token of the first is
\* aborted, the token of the second is the current one, and the lock is free
OneCurrentTokenWitness ==
  /\ mutex = Free
  /\ \E a, b \in Workers :
       /\ SameProject(a, b) /\ P1Before(a, b)
       /\ tokFlag[wk[a].abort]
       /\ CurrentToken(wk[b].proj) = wk[b].abort
       /\ ~tokFlag[wk[b].abort]
       /\ wk[b].pc = "done"

-----------------------------------------------------------------------------
(* C27.  An observed abort is a normal end.  A worker past Phase 1 whose   *)
(* token is aborted and that ends (the mutex not being poisoned) ends by   *)
(* returning (at line 224 or line 246) or through an error of the analysis *)
(* backend, not through a panic of its own; the step sends nothing and     *)
(* changes neither the registry with its stores, changes sets and tokens,  *)
(* nor any abort flag.                                                     *)

AbortObservedEndsNormally ==
  [][\A w \in Workers :
       (/\ wk[w].pc \in {"load", "files", "phase3"}
        /\ tokFlag[wk[w].abort]
        /\ ~poisoned
        /\ wk'[w].pc \in Ended)
         => /\ wk'[w].pc \in {"cancelled", "stale", "failed"}
            /\ out' = out
            /\ context' = context
            /\ tokFlag' = tokFlag
            /\ \A ptr \in DOMAIN heap' : heap'[ptr] = heap[ptr]]_vars

-----------------------------------------------------------------------------
(* C28.  Snapshot immutability.  From Phase 1 to its end a worker holds    *)
(* the same store pointer, and the allocation it points to holds the same  *)
(* records after every step of any thread, whatever patch and unpatch      *)
(* later go through change on the workspace; the snapshot keeps the record *)
(* Phase 1 patched in.                                                     *)

SnapshotImmutable ==
  /\ [](\A w \in Workers :
          IsSome(wk[w].snap) =>
            /\ Unwrap(wk[w].snap) \in DOMAIN heap
            /\ IsSome(index_of(heap[Unwrap(wk[w].snap)], wk[w].patch.uri))
            /\ LET st == heap[Unwrap(wk[w].snap)]
                   rec == st.patches[Unwrap(index_of(st, wk[w].patch.uri))] IN
               [text |-> rec.text, version |-> rec.version] = wk[w].stored)
  /\ [][\A w \in Workers :
          (IsSome(wk[w].snap) /\ wk'[w].pc \notin Ended)
            => /\ wk'[w].snap = wk[w].snap
               /\ heap'[Unwrap(wk[w].snap)] = heap[Unwrap(wk[w].snap)]]_vars

\* a worker in flight holds a snapshot that the store of its workspace has
\* moved away from: a later patch or unpatch was applied to a clone
SnapshotImmutableWitness ==
  \E w \in Workers :
    /\ wk[w].pc \in {"load", "files", "phase3"}
    /\ IsSome(wk[w].snap)
    /\ LET cur == Unwrap(context.wctx)[wk[w].proj[1]].store IN
       /\ cur # Unwrap(wk[w].snap)
       /\ heap[cur].patches # heap[Unwrap(wk[w].snap)].patches

-----------------------------------------------------------------------------
(* C29.  Project isolation.  A Phase 1 that resolves its uri to project P  *)
(* aborts the token P held, gives P a new token that no project ever held  *)
(* and adds its path to the changes of P; the token and the changes of     *)
(* every other project and the flag of every other token are as before, so *)
(* that the token of a worker in flight for another project stays valid.   *)

-----------------------------------------------------------------------------
(* C30.  didClose only removes the overlay record.  A step of the          *)
(* textDocument/didClose handler spawns no worker, sends nothing and       *)
(* changes no abort flag, no project's token and no changes set, and the   *)
(* allocation behind every worker's snapshot is as before; when the        *)
(* handler returns, the store of one workspace has lost the record of the  *)
(* closed uri and nothing else, and when it panics no store has changed.   *)

\* the dispatch thread takes a step of the didClose handler
CloseStep ==
  /\ dmsg.method = Some("textDocument/didClose")
  /\ dpc \in {"handler", "hlocked"}
  /\ dpc' # dpc

\* the record of uri went from the store, the other records stayed in order
RecordRemoved(old, new, uri) ==
  /\ new.basepath = old.basepath
  /\ IsSome(index_of(old, uri))
  /\ ~IsSome(index_of(new, uri))
  /\ Len(new.patches) = Len(old.patches) - 1
  /\ \A k \in 1..Len(new.patches) :
        new.patches[k] = old.patches[IF k < Unwrap(index_of(old, uri)) THEN k ELSE k + 1]

CloseOnlyUnpatches ==
  [][CloseStep =>
       /\ wk' = wk
       /\ out' = out
       /\ tokFlag' = tokFlag
       /\ IsSome(context.wctx) = IsSome(context'.wctx)
       /\ IsSome(context.wctx) =>
             /\ \A s \in Slots :
                   /\ ProjAt(context', s).abort = ProjAt(context, s).abort
                   /\ ProjAt(context', s).changes = ProjAt(context, s).changes
                   /\ ProjAt(context', s).path = ProjAt(context, s).path
             /\ LET n == Len(Unwrap(context.wctx))
                    old(i) == heap[Unwrap(context.wctx)[i].store]
                    new(i) == heap'[Unwrap(context'.wctx)[i].store] IN
                /\ Len(Unwrap(context'.wctx)) = n
                /\ dpc' # "idle" => \A i \in 1..n : new(i) = old(i)
                /\ dpc' = "idle" =>
                      \E i \in 1..n :
                        /\ RecordRemoved(old(i), new(i), dmsg.params.uri)
                        /\ \A j \in (1..n) \ {i} : new(j) = old(j)
       /\ \A w \in Workers :
             IsSome(wk[w].snap) =>
               heap'[Unwrap(wk[w].snap)] = heap[Unwrap(wk[w].snap)]]_vars

\* a document was closed and its record is gone from the store, while a
\* worker in flight still holds a valid token and the snapshot with the
\* record of the closed document
CloseOnlyUnpatchesWitness ==
  /\ closes = 1
  /\ ~poisoned
  /\ dpc = "idle"
  /\ \E w \in Workers :
       /\ wk[w].pc \in {"load", "files", "phase3"}
       /\ is_valid(tokFlag, wk[w].abort)
       /\ ProjAt(context, wk[w].proj).abort = wk[w].abort
       /\ IsSome(index_of(heap[Unwrap(wk[w].snap)], wk[w].patch.uri))
       /\ ~IsSome(index_of(heap[Unwrap(context.wctx)[wk[w].proj[1]].store],
                           wk[w].patch.uri))

-----------------------------------------------------------------------------
(* C31: ingress and the incoming async requests in flight *)

\* the ids of the async requests in flight: the one recv is handing to its
\* handler, and those whose AsyncReq is alive
InFlight ==
  { r.id : r \in areqs }
  \cup (IF /\ dpc = "handler"
           /\ IsSome(dmsg.method)
           /\ IsSome(dmsg.id)
           /\ Unwrap(dmsg.method) \in async_hands
        THEN {Unwrap(dmsg.id)}
        ELSE {})

\* C31: the ingress map holds exactly the incoming async requests in flight:
\* an id enters it when the request is dispatched to its async handler, and
\* is gone from it once the request has been resolved or dropped
IngressHoldsInFlight == DOMAIN ingress = InFlight

-----------------------------------------------------------------------------
(* C32: one response at most for an async request *)

\* the responses with id i that the holder of an AsyncReq has sent
AsyncResponses(o, by, i) ==
  { k \in 1..Len(o) : by[k] = Holder /\ ~IsSome(o[k].method) /\ o[k].id = Some(i) }

\* C32: for each dispatched async request at most one response carrying its
\* id is sent, whatever the order of resolve, $/cancelRequest and drop.
\* Every AsyncReq is a new object (its token is the newest one, registered
\* in ingress at dispatch); a step that sends a response for an async request
\* sends one and ends the life of one unresolved AsyncReq with that id; a
\* $/cancelRequest sends nothing and leaves the objects alone
OneResponsePerAsyncReq ==
  /\ [](\A r \in areqs : r.abort \in 1..Len(tokFlag))
  /\ [][/\ Len(tokFlag') >= Len(tokFlag)
        /\ \A r \in areqs' \ areqs :
              /\ dpc = "handler"
              /\ dmsg.id = Some(r.id)
              /\ r.abort = ingress[r.id]
              /\ r.abort = Len(tokFlag)
              /\ \A q \in areqs : q.abort < r.abort
              /\ areqs' = areqs \cup {r}
        /\ (dpc = "locked" /\ dpc' = "handler" /\ Unwrap(dmsg.method) \in async_hands) =>
              /\ Len(tokFlag') = Len(tokFlag) + 1
              /\ ingress'[Unwrap(dmsg.id)] = Len(tokFlag')
              /\ ~tokFlag'[Len(tokFlag')]
        /\ (Dispatched /\ IsCancel(dmsg)) => (areqs' = areqs /\ out' = out)
        /\ \A i \in 0..MaxId :
              AsyncResponses(out', outBy', i) # AsyncResponses(out, outBy, i) =>
                /\ Len(out') = Len(out) + 1
                /\ AsyncResponses(out', outBy', i) =
                     AsyncResponses(out, outBy, i) \cup {Len(out')}
                /\ \E r \in areqs : r.id = i /\ areqs' = areqs \ {r}]_vars

\* a request was cancelled and then resolved: its one response is the result,
\* and nothing of it is left to answer again
OneResponsePerAsyncReqWitness ==
  /\ areqs = {}
  /\ 0 \in DOMAIN ingress
  /\ tokFlag[ingress[0]]
  /\ Cardinality(AsyncResponses(out, outBy, 0)) = 1
  /\ \E k \in AsyncResponses(out, outBy, 0) : IsSome(out[k].result)

-----------------------------------------------------------------------------
(* An editing session in which the server registers its file watcher: the  *)
(* editor of FairSpec also sends initialized and answers the request       *)

\* initialized is sent once; a response answers a request that is pending
SessionMsgs ==
  ProjectEditMsgs
  \cup (IF nextReq = 0 THEN { Notif("initialized", [none |-> TRUE]) } ELSE {})
  \cup { [method |-> None, id |-> Some(j), params |-> [ok |-> b]] :
           j \in DOMAIN egress, b \in BOOLEAN }

RecvSession ==
  \E msg \in SessionMsgs :
    RecvLock(msg) /\ clientOpen' = ClientAfter(msg) /\ UNCHANGED received

NextSession ==
  \/ RecvSession
  \/ DispatchStep
  \/ InitializedBody
  \/ CallbackRun
  \/ Worker

SpecSession == Init /\ [][NextSession]_vars

-----------------------------------------------------------------------------
(* C33: the callback of an outgoing request runs inside recv's critical    *)
(* section                                                                 *)

\* the worker stands at one of its two session.lock() calls
AtLock(me) == me.pc = "spawned" \/ (me.pc = "files" /\ me.todo = {})

\* C33: recv holds the session mutex from its start until the callback of
\* an outgoing request returns.  While the callback runs the mutex is never
\* free, so no lock on the session can be acquired: not by the callback
\* itself (Session::lock, notify, request and set would not return), and not
\* by a worker, which stays at its lock call and sends nothing until the
\* callback has returned
CallbackInCriticalSection ==
  /\ []((dpc = "callback" \/ (dpc = "locked" /\ IsResponse(dmsg))) => mutex = Dispatch)
  /\ [][dpc = "callback" =>
          /\ \/ dpc' = "callback" /\ mutex' = Dispatch
             \/ dpc' \in {"idle", "panicked"} /\ mutex' = Free
          /\ out' = out
          /\ context' = context
          /\ \A w \in Workers :
                /\ wk'[w].pc \notin {"phase1", "phase3"}
                /\ AtLock(wk[w]) => wk'[w] = wk[w]]_vars

\* the callback of client/registerCapability is running while one worker
\* stands at the lock call of Phase 1 and another at that of Phase 3
CallbackInCriticalSectionWitness ==
  /\ dpc = "callback"
  /\ mutex = Dispatch
  /\ \E w \in Workers : wk[w].pc = "spawned"
  /\ \E w \in Workers : wk[w].pc = "files" /\ wk[w].todo = {}

-----------------------------------------------------------------------------
(* C34: a failure inside Phase 1 poisons the session mutex *)

\* what Phase 1 of a worker for uri cannot go on without: the WorkspaceCtx,
\* a workspace that contains uri, and a project of it that contains uri
Phase1Fails(uri) ==
  \/ ~IsSome(context.wctx)
  \/ ~IsSome(get_proj_mut(Unwrap(context.wctx), heap, uri))

\* C34: a worker that fails inside Phase 1 (no WorkspaceCtx yet, no workspace
\* or no project for the patched uri) leaves the session mutex poisoned.
\* From then on the mutex is never held again: the next recv of the dispatch
\* thread fails, a worker that reaches one of its lock calls fails there, no
\* handler and no Phase 3 runs with the session, and nothing is sent
Phase1FailurePoisons ==
  /\ [](poisoned => mutex = Free)
  /\ [][/\ \A w \in Workers :
              (wk[w].pc = "phase1" /\ wk'[w].pc # "phase1") =>
                 /\ Phase1Fails(wk[w].patch.uri) <=> wk'[w].pc = "panicked"
                 /\ wk'[w].pc = "panicked" => poisoned'
        /\ poisoned =>
              /\ poisoned'
              /\ mutex' = Free
              /\ out' = out
              /\ context' = context
              /\ dpc' \notin {"locked", "hlocked", "callback"}
              /\ (dpc = "idle" /\ dpc' # "idle") => dpc' = "panicked"
              /\ dpc = "respond" => dpc' \in {"respond", "panicked"}
              /\ \A w \in Workers :
                    /\ (AtLock(wk[w]) /\ wk'[w] # wk[w]) => wk'[w].pc = "panicked"
                    /\ wk'[w].pc \notin {"phase1", "phase3"}
                    /\ wk'[w].pc \in {"done", "stale", "orphan"} =>
                          wk'[w].pc = wk[w].pc]_vars

\* one worker failed in Phase 1; another, whose Phase 1 had completed and
\* whose token is not set, failed at the lock call of Phase 3; the dispatch
\* thread failed at the lock call of the next recv
Phase1FailurePoisonsWitness ==
  /\ poisoned
  /\ dpc = "panicked"
  /\ dmsg = NoMsg
  /\ \E w \in Workers :
       /\ wk[w].pc = "panicked"
       /\ \A i \in 1..Len(p1order) : p1order[i] # w
  /\ \E w \in Workers :
       /\ wk[w].pc = "panicked"
       /\ \E i \in 1..Len(p1order) : p1order[i] = w
       /\ ~tokFlag[wk[w].abort]

-----------------------------------------------------------------------------
(* C35: worker termination *)

\* the position of a worker in process_update, in program order
Rank(pc) ==
  CASE pc = "spawned" -> 0
    [] pc = "phase1" -> 1
    [] pc = "load" -> 2
    [] pc = "files" -> 3
    [] pc = "phase3" -> 4
    [] OTHER -> 5

\* C35: with a backend that terminates and a fair session mutex every
\* spawned worker ends: it publishes, returns on abort, or fails.  A worker
\* holds the session lock in Phase 1 and in Phase 3 and nowhere else (not in
\* Phase 2), it acquires the lock only on entering these two phases, each of
\* which it enters once at most and leaves with the lock released, so it
\* never requests the lock while holding it; a worker that has ended does
\* nothing more
WorkerTermination ==
  /\ [](\A w \in Workers : mutex = w <=> wk[w].pc \in {"phase1", "phase3"})
  /\ [][\A w \in Workers :
          /\ Rank(wk'[w].pc) >= Rank(wk[w].pc)
          /\ (mutex' = w /\ mutex # w) =>
                \/ wk[w].pc = "spawned" /\ wk'[w].pc = "phase1"
                \/ wk[w].pc = "files" /\ wk[w].todo = {} /\ wk'[w].pc = "phase3"
          /\ (mutex = w /\ wk'[w] # wk[w]) =>
                /\ mutex' = Free
                /\ Rank(wk'[w].pc) > Rank(wk[w].pc)
          /\ wk[w].pc \in Ended => wk'[w] = wk[w]]_vars
  /\ \A w \in 1..MaxEdits :
        (Len(wk) >= w) ~> (Len(wk) >= w /\ wk[w].pc \in Ended)

\* three ways to end at once: a worker that published, one that was
\* superseded, and all workers ended
WorkerTerminationWitness ==
  /\ Len(wk) = MaxEdits
  /\ AllEnded
  /\ mutex = Free
  /\ \E w \in Workers : wk[w].pc = "done"
  /\ \E w \in Workers : wk[w].pc \in {"cancelled", "stale"}

====
